---- MODULE Spec2Model ----
(***************************************************************************)
(* Model of the Revuze review extension: the popup's analysis flow         *)
(* (review_extension/popup.js: startAnalysis, analyzeReviews,              *)
(* pollForResults, updateUI) and the background message relay              *)
(* (review_extension/background.js), and the content script that collects  *)
(* the reviews of the page (scrapeReviewsFromPage, the expander and the    *)
(* collection pass, in the three versions the repository holds).           *)
(*                                                                         *)
(* Each click on the Analyze button starts one analysis, numbered in click *)
(* order.  An analysis is a chain of callbacks and awaits; one action of   *)
(* the model is one run-to-completion step of the event loop (from one     *)
(* callback / await resumption to the next await).                         *)
(***************************************************************************)
EXTENDS Integers, Sequences, FiniteSets, TLC

\* ------------------------------------------------------------------ bounds
\* number of clicks on the Analyze button in one popup session
MaxStarts == 2
\* pollForResults' maxAttempts parameter (the code's default is 30)
MaxAttempts == 2

Analyses == 1..MaxStarts

\* --------------------------------------------------------------- constants
\* a JavaScript string that is missing (undefined) or empty: falsy
Absent == ""

\* Error.message of a rejected fetch (network failure)
NetErrorMessage == "Failed to fetch"

\* error messages are (text, status) pairs standing for `${text}${status}`;
\* status 0 = the message has no number in it
Msg(text, status) == [text |-> text, status |-> status]
NoMsg == Msg(Absent, 0)

TimeoutMsg == Msg("Analysis timed out - please try again", 0)
JobFailedMsg == Msg("Analysis job failed", 0)
NoReviewsMsg == Msg("No reviews found on this page.", 0)
CouldNotScrapeMsg == Msg("Could not scrape reviews. Reload page and try again.", 0)
UnknownErrorMsg == Msg("An unknown error occurred.", 0)
AnalysisFailedMsg == Msg("Analysis failed.", 0)

\* m || d for a message m
MsgOr(m, d) == IF m.text = Absent THEN d ELSE m

VARIABLES
    view,          \* the state last given to updateUI: idle, loading, results, error
    active,        \* the view elements that carry class `active`
    errorMessage,  \* errorMessageEl.textContent
    loadingText,   \* the attempt number shown in `Analyzing reviews... (k/max)`, 0 = none
    rendered,      \* the result last rendered by updateUI('results', data)
    alive,         \* TRUE until the popup is closed
    started,       \* number of startAnalysis calls so far
    relay,         \* per scrape request: the background relay's state
    an,            \* per analysis: the popup side (callback position, poll loop)
    jobsIssued,    \* number of job ids the service has issued
    hist           \* history variable: the answers to the first analysis' status
                   \* requests, in order (recorded by PollSpec only)

\* the popup and the relay
pvars == <<view, active, errorMessage, loadingText, rendered, alive, started, relay, an, jobsIssued, hist>>

VARIABLES
    build,         \* which content script the page runs: enhanced, safe, basic, eager
    host,          \* window.location.hostname, as the set of site names it contains
    doc,           \* the document: its text elements, in document order
    ctl,           \* the document's controls: read-more buttons, load-more links
    dom,           \* ok; nobody = document.body is null; throws = DOM access throws
    changes,       \* number of times the page has changed its content
    seenTexts,     \* scrapeReviewsFromPage's seenTexts at its last return
    pass,          \* the collection pass the content script runs for a request
    calls          \* history variable: the calls of scrapeReviewsFromPage,
                   \* each with the document it read and what it returned

\* the page and its content script
cvars == <<build, host, doc, ctl, dom, changes, seenTexts, pass, calls>>

VARIABLES
    script,        \* which popup script runs: main = popup.js, backup = popup-backup.js,
                   \* simple = popup-simple.js
    payload,       \* the analysis result handed to updateUI('results', data)
    renders        \* history variable: what each rendering of payload showed

VARIABLES
    currentAnalysisData, \* popup-simple.js: the job whose result was rendered last, 0 = null
    currentJobId,        \* popup-simple.js: the job id stored last, 0 = null
    submitted,           \* jobs submitted in the session
    shown,               \* the jobs whose result has been rendered
    now,                 \* Date.now(), in milliseconds
    clicks,              \* activations of `View Detailed Analysis` so far
    pendingQueries,      \* chrome.tabs.query calls whose callback has not run
    localStorage,        \* the viewer's entries: key -> blob
    writes               \* history variable: the localStorage.setItem calls, in order

\* the handoff to the detail view
hvars == <<currentAnalysisData, currentJobId, submitted, shown, now, clicks, pendingQueries,
           localStorage, writes>>

\* the popup's results view: the derived scores and the handoff
svars == <<script, payload, renders, hvars>>

vars == <<pvars, cvars, svars>>

\* ------------------------------------------------------------ data shapes
\* { reviews: string[], error?: string }; defined = FALSE stands for `undefined`
Resp(reviews, error) == [defined |-> TRUE, reviews |-> reviews, error |-> error]
Undefined == [defined |-> FALSE, reviews |-> <<>>, error |-> Absent]

\* what the page context (content script) may answer to a forwarded request
PageResponses ==
    { Undefined,
      Resp(<<>>, Absent),
      Resp(<<"review one", "review two">>, Absent),
      Resp(<<>>, "DOM access failed") }

\* result of chrome.tabs.query: a list of tabs, each with an optional id (0 = no id)
TabLists == { <<>>, <<[id |-> 0]>>, <<[id |-> 7]>> }

\* body of a GET /results/{job_id} answer
Body(status, error, data, job) == [status |-> status, error |-> error, data |-> data, job |-> job]
NoResult == Body(Absent, Absent, Absent, 0)

\* what the service puts in `error.message` of a status `error` answer
ServiceErrorMessages == {"job crashed", Absent}
\* the result data of a `done` answer
Bodies == {"analysis result"}
\* HTTP statuses the backend is made to answer with
HttpStatuses == {200, 500}

\* an HTTP exchange as the popup sees it: net = TRUE when fetch rejects
Answer(net, status, body) == [net |-> net, status |-> status, body |-> body]
NetFailure == Answer(TRUE, 0, NoResult)

StatusAnswers(job) ==
    {NetFailure}
    \cup {Answer(FALSE, s, NoResult) : s \in HttpStatuses \ {200}}
    \cup {Answer(FALSE, 200, Body("pending", Absent, Absent, job))}
    \cup {Answer(FALSE, 200, Body("done", Absent, d, job)) : d \in Bodies}
    \cup {Answer(FALSE, 200, Body("error", m, Absent, job)) : m \in ServiceErrorMessages}

SubmitAnswers(job) ==
    {NetFailure} \cup {Answer(FALSE, s, Body(Absent, Absent, Absent, job)) : s \in HttpStatuses}

\* the `data` argument of updateUI
ErrData(m) == [isData |-> TRUE, message |-> m, result |-> NoResult]
ResData(r) == [isData |-> TRUE, message |-> NoMsg, result |-> r]
NoData == [isData |-> FALSE, message |-> NoMsg, result |-> NoResult]

\* ------------------------------------------------------------------ state
\* pc: idle, sent, lost, query, forwarded, done; path: notab, fwdfail, page;
\* page: what the page context passed to its sendResponse
RelayInit ==
    [pc |-> "idle", forwards |-> 0, responses |-> <<>>, path |-> Absent, page |-> Undefined]

AnInit ==
    [ pc |-> "none",         \* none, scrape, submit, poll, delay, shown, failed
      received |-> Undefined, \* the response the sendMessage callback was called with
      reviews |-> <<>>,      \* the reviews handed to analyzeReviews
      scrapes |-> 0,         \* scrape requests sent
      posts |-> 0,           \* POST /analyze requests sent
      submitStatus |-> 0,    \* HTTP status of the POST answer (0 none, -1 rejected)
      jobId |-> 0,           \* job id taken from the POST answer
      attempt |-> 0,         \* pollForResults' loop variable
      issued |-> 0,          \* GET /results requests sent
      answered |-> 0,        \* GET /results requests completed
      result |-> NoResult,   \* what pollForResults returned
      thrown |-> NoMsg,      \* the error analyzeReviews caught
      reported |-> NoMsg ]   \* the message this analysis gave to updateUI('error')

\* the elements of class `view` in the popup's document: `${state}-view`
ViewElements == {"idle", "loading", "results", "error"}

PopupInit ==
    /\ view = "idle"
    /\ active = {"idle"}
    /\ errorMessage = NoMsg
    /\ loadingText = 0
    /\ rendered = NoResult
    /\ alive = TRUE
    /\ started = 0
    /\ relay = [i \in Analyses |-> RelayInit]
    /\ an = [i \in Analyses |-> AnInit]
    /\ jobsIssued = 0
    /\ hist = <<>>

\* the controls of a page without any
NoControls == [readMore |-> <<>>, loadMore |-> <<>>]

\* a collection pass: the locals of waitForReviews / collectReviews and of the
\* expander, the observer, and the sendResponse calls made for the request
PassInit ==
    [ pc |-> "idle",          \* idle, readWait, loadWait, observing, safeWait,
                              \* retryWait, eagerReadWait, eagerLoadWait, answered, hung
      allReviews |-> <<>>,    \* waitForReviews' allReviews (collectReviews' reviews)
      initial |-> <<>>,       \* what the first extraction of the pass returned
      totalReviews |-> <<>>,  \* the expander's totalReviews
      attempts |-> 0,         \* the expander's attempts
      observer |-> "none",    \* none, connected, disconnected
      pending |-> FALSE,      \* mutation records wait for the observer callback
      threw |-> FALSE,        \* an exception was thrown during the pass
      extractions |-> <<>>,   \* history: what each extraction of the pass returned
      replies |-> <<>>,       \* the arguments of the sendResponse calls
      request |-> 1 ]         \* which scrapeReviews request of the page the pass serves

\* a page no request has reached
PageAtRest ==
    /\ build = "enhanced"
    /\ host = {"amazon"}
    /\ doc = <<>>
    /\ ctl = NoControls
    /\ dom = "ok"
    /\ changes = 0
    /\ seenTexts = {}
    /\ pass = PassInit
    /\ calls = <<>>

\* an analysis result (the payload of a done job).  Fractions are in
\* hundredths (100 = 1.0), ratings in tenths (42 = 4.2); a metric of 0 is a
\* metric the payload does not carry
Category(name, rating, sentiment_score) ==
    [name |-> name, rating |-> rating, sentiment_score |-> sentiment_score]
Metrics(avg_review_length, keyword_diversity, category_coverage, sentiment_variance) ==
    [avg_review_length |-> avg_review_length, keyword_diversity |-> keyword_diversity,
     category_coverage |-> category_coverage, sentiment_variance |-> sentiment_variance]
NoMetrics == Metrics(0, 0, 0, 0)
AnalysisResult(sentiment, n_reviews, category_breakdown, top_positive, top_negative,
               authenticity_metrics) ==
    [sentiment |-> sentiment, n_reviews |-> n_reviews,
     category_breakdown |-> category_breakdown,
     top_positive |-> top_positive, top_negative |-> top_negative,
     authenticity_metrics |-> authenticity_metrics]
Sentiment(positive, negative) == [positive |-> positive, negative |-> negative]

\* no result to hand over, nothing stored
HandoffAtRest ==
    /\ currentAnalysisData = 0
    /\ currentJobId = 0
    /\ submitted = 0
    /\ shown = {}
    /\ now = 1
    /\ clicks = 0
    /\ pendingQueries = 0
    /\ localStorage = <<>>
    /\ writes = <<>>

\* a popup that has rendered no result
RenderAtRest ==
    /\ script = "main"
    /\ payload = AnalysisResult(Sentiment(0, 0), 0, <<>>, <<>>, <<>>, NoMetrics)
    /\ renders = <<>>
    /\ HandoffAtRest

Init == PopupInit /\ PageAtRest /\ RenderAtRest

\* ------------------------------------------------------------- popup: UI
\* updateUI(state, data): the view classes, then what the state has to show
\* mainContent.querySelectorAll('.view').forEach(view => view.classList.remove('active'))
\* variant: the views left as they are
Deactivate_None(views) == views
Deactivate(views) == views \ ViewElements

\* const activeView = document.getElementById(`${state}-view`);
\* if (activeView) activeView.classList.add('active')
Activate(state, views) == IF state \in ViewElements THEN views \cup {state} ELSE views

UpdateUI(state, data) ==
    /\ view' = state
    /\ active' = Activate(state, Deactivate(active))
    /\ rendered' = IF state = "results" /\ data.isData THEN data.result ELSE rendered
    /\ errorMessage' = IF state = "error" /\ data.isData
                       THEN MsgOr(data.message, UnknownErrorMsg)
                       ELSE errorMessage

\* retryButton click: () => updateUI('idle')
RetryClick ==
    /\ alive
    /\ UpdateUI("idle", NoData)
    /\ UNCHANGED <<loadingText, alive, started, relay, an, jobsIssued, hist>>
    /\ UNCHANGED <<cvars, svars>>

\* closing the popup ends the session; the code keeps no flag and cancels nothing
ClosePopup ==
    /\ alive
    /\ alive' = FALSE
    /\ UNCHANGED <<view, active, errorMessage, loadingText, rendered, started, relay, an, jobsIssued, hist>>
    /\ UNCHANGED <<cvars, svars>>

\* startAnalysis: analyzeButton click
StartAnalysis ==
    /\ alive
    /\ started < MaxStarts
    /\ LET i == started + 1 IN
        /\ started' = i
        /\ UpdateUI("loading", NoData)
        /\ relay' = [relay EXCEPT ![i].pc = "sent"]
        /\ an' = [an EXCEPT ![i].pc = "scrape", ![i].scrapes = @ + 1]
    /\ UNCHANGED <<loadingText, alive, jobsIssued, hist>>
    /\ UNCHANGED <<cvars, svars>>

\* ------------------------------------------------- background.js: relay
\* variant: the no-tab reply without its error text
NoTabReply_NoError == Resp(<<>>, Absent)
NoTabReply == Resp(<<>>, "No active tab found.")
ForwardFailedReply == Resp(<<>>, "Could not communicate with the page. Try reloading the tab.")
NoResponseReply == Resp(<<>>, "No response from content script.")

\* activeTab?.id is truthy
HasActiveTab(tabs) == Len(tabs) > 0 /\ tabs[1].id # 0

\* the sendResponse calls made by the callback of chrome.tabs.sendMessage
\* variant: the lastError branch without its sendResponse call
ForwardReplies_Silent(lastError, response) ==
    IF lastError THEN <<>>
    ELSE <<IF response.defined THEN response ELSE NoResponseReply>>

\* variant: the page's answer rebuilt from its reviews alone
ForwardReplies_Rebuilt(lastError, response) ==
    IF lastError THEN <<ForwardFailedReply>>
    ELSE <<Resp(response.reviews, Absent)>>

ForwardReplies(lastError, response) ==
    IF lastError THEN <<ForwardFailedReply>>
    ELSE <<IF response.defined THEN response ELSE NoResponseReply>>

\* the sendResponse calls made by the callback of chrome.tabs.query
\* when it does not forward
NoTabReplies == <<NoTabReply>>

\* onMessage listener: request.from === 'popup' && action === 'scrapeReviews'
\* -> chrome.tabs.query(...), return true
RelayOnMessage(i) ==
    /\ relay[i].pc = "sent"
    /\ relay' = [relay EXCEPT ![i].pc = "query"]
    /\ UNCHANGED <<view, active, errorMessage, loadingText, rendered, alive, started, an, jobsIssued, hist>>
    /\ UNCHANGED <<cvars, svars>>

\* callback of chrome.tabs.query
RelayOnTabs(i) ==
    /\ relay[i].pc = "query"
    /\ \E tabs \in TabLists :
        relay' = [relay EXCEPT ![i] =
            IF HasActiveTab(tabs)
            THEN [@ EXCEPT !.pc = "forwarded", !.forwards = @ + 1]
            ELSE [@ EXCEPT !.pc = "done", !.path = "notab",
                           !.responses = @ \o NoTabReplies]]
    /\ UNCHANGED <<view, active, errorMessage, loadingText, rendered, alive, started, an, jobsIssued, hist>>
    /\ UNCHANGED <<cvars, svars>>

\* callback of chrome.tabs.sendMessage, run with chrome.runtime.lastError
\* set or with the page context's response
ForwardCallback(i, lastError, response) ==
    /\ relay[i].pc = "forwarded"
    /\ relay' = [relay EXCEPT ![i].pc = "done",
                              ![i].path = IF lastError THEN "fwdfail" ELSE "page",
                              ![i].page = response,
                              ![i].responses = @ \o ForwardReplies(lastError, response)]
    /\ UNCHANGED <<view, active, errorMessage, loadingText, rendered, alive, started, an, jobsIssued, hist>>

\* the callback, for whatever a page may answer
RelayOnForwardResult(i) ==
    /\ \E lastError \in BOOLEAN :
       \E response \in (IF lastError THEN {Undefined} ELSE PageResponses) :
        ForwardCallback(i, lastError, response)
    /\ UNCHANGED <<cvars, svars>>

\* --------------------------------------------- popup.js: pollForResults
\* response.ok
ResponseOk(status) == status \in 200..299

\* for (...; attempt <= maxAttempts; ...)
\* variant: attempt < maxAttempts
LoopCond_Short(attempt) == attempt < MaxAttempts
LoopCond(attempt) == attempt <= MaxAttempts

\* kind of a completed status request, as pollForResults tells them apart
Kind(r) ==
    IF r.net THEN "net"
    ELSE IF ~ResponseOk(r.status) THEN "http"
    ELSE r.body.status

\* the try block after the fetch: return the result, throw, or sleep
\* variant: status `done` not told apart from `pending`
TryOutcome_IgnoreDone(r) ==
    CASE Kind(r) \in {"net", "http", "error"} -> "throw"
      [] OTHER -> "sleep"

TryOutcome(r) ==
    CASE Kind(r) \in {"net", "http"} -> "throw"
      [] Kind(r) = "done" -> "return"
      [] Kind(r) = "error" -> "throw"
      [] OTHER -> "sleep"

\* the Error thrown in the try block
Thrown(r) ==
    CASE r.net -> Msg(NetErrorMessage, 0)
      [] ~r.net /\ ~ResponseOk(r.status) -> Msg("Failed to get results: ", r.status)
      [] OTHER -> MsgOr(Msg(r.body.error, 0), JobFailedMsg)

\* popup-simple.js pollForResults, the try block after the fetch:
\* if (response.ok) return the body; else if (response.status === 202) sleep;
\* else throw
SimpleTryOutcome(r) ==
    CASE r.net -> "throw"
      [] ~r.net /\ ResponseOk(r.status) -> "return"
      [] ~r.net /\ ~ResponseOk(r.status) /\ r.status = 202 -> "sleep"
      [] OTHER -> "throw"

SimpleThrown(r) ==
    IF r.net THEN Msg(NetErrorMessage, 0) ELSE Msg("Results polling failed: ", r.status)

SimpleTimeoutMsg == Msg("Analysis timed out", 0)

\* the try block of the popup script that runs
PollOutcome(r) == IF script = "simple" THEN SimpleTryOutcome(r) ELSE TryOutcome(r)
PollThrown(r) == IF script = "simple" THEN SimpleThrown(r) ELSE Thrown(r)

\* catch (err): if (attempt === maxAttempts) throw err; else wait and go on
\* variants: a catch that always rethrows; a catch that never does
CatchOutcome_FailFast(attempt) == "rethrow"
CatchOutcome_AlwaysRetry(attempt) == "retry"
CatchOutcome(attempt) == IF attempt = MaxAttempts THEN "rethrow" ELSE "retry"

\* the delay timer is created only after the response has been handled
\* variant: a timer running from the moment the request is sent (setInterval style)
TimerArmed_Interval(i) == an[i].pc \in {"poll", "delay"}
TimerArmed(i) == an[i].pc = "delay"

\* variant: a catch that submits the reviews again instead of reporting
Fail_Resubmit(i, rec, err) ==
    /\ an' = [an EXCEPT ![i] = [rec EXCEPT !.pc = "submit", !.posts = @ + 1]]
    /\ UNCHANGED <<view, active, errorMessage, rendered>>

\* analyzeReviews' catch: updateUI('error', { message: err.message || "Analysis failed." })
Fail(i, rec, err) ==
    /\ an' = [an EXCEPT ![i] = [rec EXCEPT !.pc = "failed", !.thrown = err,
                                            !.reported = MsgOr(err, AnalysisFailedMsg)]]
    /\ UpdateUI("error", ErrData(MsgOr(err, AnalysisFailedMsg)))

\* loadingText.textContent = `Analyzing reviews... (${attempt}/${maxAttempts})`
ShownAttempt_FromZero(attempt) == attempt - 1
ShownAttempt(attempt) == attempt

\* one pass through the loop head: test the condition, show the attempt,
\* send the request; or leave the loop and throw the timeout error
LoopHead(i, rec, attempt) ==
    IF LoopCond(attempt)
    THEN /\ an' = [an EXCEPT ![i] = [rec EXCEPT !.pc = "poll", !.attempt = attempt,
                                                !.issued = @ + 1]]
         /\ loadingText' = IF script = "simple" THEN loadingText ELSE ShownAttempt(attempt)
         /\ UNCHANGED <<view, active, errorMessage, rendered>>
    ELSE /\ Fail(i, [rec EXCEPT !.attempt = attempt],
                 IF script = "simple" THEN SimpleTimeoutMsg ELSE TimeoutMsg)
         /\ UNCHANGED loadingText

\* the fetch of GET /results/{jobId} settles with r; the loop body runs to its
\* next await, or pollForResults returns / throws into analyzeReviews
PollResponseStep(i, r) ==
    /\ an[i].pc = "poll"
    /\ an[i].issued > an[i].answered
    /\ LET rec == [an[i] EXCEPT !.answered = @ + 1] IN
        CASE PollOutcome(r) = "return" ->
                /\ an' = [an EXCEPT ![i] = [rec EXCEPT !.pc = "shown", !.result = r.body]]
                /\ UpdateUI("results", ResData(r.body))
          [] PollOutcome(r) = "throw" /\ CatchOutcome(rec.attempt) = "rethrow" ->
                Fail(i, rec, PollThrown(r))
          [] OTHER ->
                /\ an' = [an EXCEPT ![i] = [rec EXCEPT !.pc = "delay"]]
                /\ UNCHANGED <<view, active, errorMessage, rendered>>
    /\ UNCHANGED <<loadingText, alive, started, relay, jobsIssued>>
    /\ UNCHANGED <<cvars, svars>>

PollResponse(i) ==
    \E r \in StatusAnswers(an[i].jobId) : PollResponseStep(i, r) /\ UNCHANGED hist

\* the same step, with the answer appended to the history variable
ObservedPollResponse(i) ==
    \E r \in StatusAnswers(an[i].jobId) : PollResponseStep(i, r) /\ hist' = Append(hist, r)

\* the delay's setTimeout fires: attempt++ and the loop head again
PollTimer(i) ==
    /\ TimerArmed(i)
    /\ LoopHead(i, an[i], an[i].attempt + 1)
    /\ UNCHANGED <<alive, started, relay, jobsIssued, hist>>
    /\ UNCHANGED <<cvars, svars>>

\* --------------------------------------------- popup.js: analyzeReviews
\* if (!submitResponse.ok) throw ...
\* variant: the response.ok test left out
SubmitRejected_Never(status) == FALSE
SubmitRejected(status) == ~ResponseOk(status)

\* the fetch of POST /analyze settles
SubmitResponse(i) ==
    /\ an[i].pc = "submit"
    /\ \E r \in SubmitAnswers(jobsIssued + 1) :
        IF r.net
        THEN /\ Fail(i, [an[i] EXCEPT !.submitStatus = -1], Msg(NetErrorMessage, 0))
             /\ UNCHANGED <<loadingText, jobsIssued>>
        ELSE IF SubmitRejected(r.status)
        THEN /\ Fail(i, [an[i] EXCEPT !.submitStatus = r.status],
                     Msg(IF script = "simple" THEN "Analysis submission failed: "
                         ELSE "Failed to submit job: ", r.status))
             /\ UNCHANGED <<loadingText, jobsIssued>>
        ELSE /\ jobsIssued' = IF ResponseOk(r.status) THEN jobsIssued + 1 ELSE jobsIssued
             /\ LoopHead(i, [an[i] EXCEPT !.submitStatus = r.status,
                                          !.jobId = IF ResponseOk(r.status) THEN r.body.job ELSE 0],
                         1)
    /\ UNCHANGED <<alive, started, relay, hist>>
    /\ UNCHANGED <<cvars, svars>>

\* --------------------------------------------- popup.js: startAnalysis
\* the sendMessage callback runs with chrome.runtime.lastError set
\* (the message reached no listener)
ScrapeLastError(i) ==
    /\ an[i].pc = "scrape"
    /\ relay[i].pc = "sent"
    /\ relay' = [relay EXCEPT ![i].pc = "lost"]
    /\ an' = [an EXCEPT ![i].pc = "failed", ![i].reported = CouldNotScrapeMsg]
    /\ UpdateUI("error", ErrData(CouldNotScrapeMsg))
    /\ UNCHANGED <<loadingText, alive, started, jobsIssued, hist>>
    /\ UNCHANGED <<cvars, svars>>

\* if (!reviews.length)
\* variant: the test left out
NoReviews_Never(reviews) == FALSE
NoReviews(reviews) == Len(reviews) = 0

\* the sendMessage callback runs with the relay's response
ScrapeCallback(i) ==
    /\ an[i].pc = "scrape"
    /\ Len(relay[i].responses) > 0
    /\ LET response == relay[i].responses[1]
           reviews == IF response.defined THEN response.reviews ELSE <<>>
       IN IF NoReviews(reviews)
          THEN /\ an' = [an EXCEPT ![i].pc = "failed", ![i].received = response,
                                   ![i].reported = NoReviewsMsg]
               /\ UpdateUI("error", ErrData(NoReviewsMsg))
          ELSE /\ an' = [an EXCEPT ![i].pc = "submit", ![i].received = response,
                                   ![i].reviews = reviews,
                                   ![i].posts = @ + 1]
               /\ UNCHANGED <<view, active, errorMessage, rendered>>
    /\ UNCHANGED <<loadingText, alive, started, relay, jobsIssued, hist>>
    /\ UNCHANGED <<cvars, svars>>

\* ----------------------------------------------------------- the system
Next ==
    \/ StartAnalysis
    \/ RetryClick
    \/ ClosePopup
    \/ \E i \in Analyses : RelayOnMessage(i)
    \/ \E i \in Analyses : RelayOnTabs(i)
    \/ \E i \in Analyses : RelayOnForwardResult(i)
    \/ \E i \in Analyses : ScrapeLastError(i)
    \/ \E i \in Analyses : ScrapeCallback(i)
    \/ \E i \in Analyses : SubmitResponse(i)
    \/ \E i \in Analyses : PollResponse(i)
    \/ \E i \in Analyses : PollTimer(i)

Spec == Init /\ [][Next]_vars

\* One analysis, observed: the session with a single click on Analyze, every
\* answer to its status requests recorded in hist.
PollNext ==
    \/ StartAnalysis /\ started = 0
    \/ RetryClick
    \/ ClosePopup
    \/ \E i \in Analyses : RelayOnMessage(i)
    \/ \E i \in Analyses : RelayOnTabs(i)
    \/ \E i \in Analyses : RelayOnForwardResult(i)
    \/ \E i \in Analyses : ScrapeLastError(i)
    \/ \E i \in Analyses : ScrapeCallback(i)
    \/ \E i \in Analyses : SubmitResponse(i)
    \/ \E i \in Analyses : ObservedPollResponse(i)
    \/ \E i \in Analyses : PollTimer(i)

PollSpec == Init /\ [][PollNext]_vars

\* the same session run by popup.js or by popup-simple.js
EitherPopupInit ==
    /\ PopupInit
    /\ PageAtRest
    /\ script \in {"main", "simple"}
    /\ payload = AnalysisResult(Sentiment(0, 0), 0, <<>>, <<>>, <<>>, NoMetrics)
    /\ renders = <<>>
    /\ HandoffAtRest

EitherPollSpec == EitherPopupInit /\ [][PollNext]_vars

\* ======================================================= the content script
\* the value of a computation, worked out once: S is a one-element set
The(S) == CHOOSE v \in S : TRUE

\* ------------------------------------------------------------------ texts
\* A text is a sequence of runs: a word (non-whitespace characters c, len of
\* them) or a run of len whitespace characters of kind c.
Word(c, len) == [ws |-> FALSE, c |-> c, len |-> len]
Space(c, len) == [ws |-> TRUE, c |-> c, len |-> len]

\* String.prototype.trim
RECURSIVE TrimStart(_)
TrimStart(t) == IF t # <<>> /\ Head(t).ws THEN TrimStart(Tail(t)) ELSE t

RECURSIVE TrimEnd(_)
TrimEnd(t) ==
    IF t # <<>> /\ t[Len(t)].ws THEN TrimEnd(SubSeq(t, 1, Len(t) - 1)) ELSE t

Trim(t) == TrimEnd(TrimStart(t))

\* text.replace(/\s+/g, ' '): every maximal whitespace run becomes one space
RECURSIVE CollapseWhitespace(_)
CollapseWhitespace(t) ==
    IF t = <<>> THEN <<>>
    ELSE IF Head(t).ws
    THEN <<Space(" ", 1)>> \o CollapseWhitespace(TrimStart(t))
    ELSE <<Head(t)>> \o CollapseWhitespace(Tail(t))

\* text.length, in code units
RECURSIVE TextLength(_)
TextLength(t) == IF t = <<>> THEN 0 ELSE Head(t).len + TextLength(Tail(t))

\* text.length < 20
MinReviewLength == 20

\* the three content scripts: unnamed/part_002 (enhanced), unnamed/part_003
\* (safe), review_extension/content_script.js (basic)
Builds == {"enhanced", "safe", "basic"}

\* the alternatives of the exclusion pattern, each as the runs it spells
MetadataPrefixes(b) ==
    { <<"Verified", " ", "Purchase">>, <<"Top", " ", "Contributor">>,
      <<"Vine", " ", "Customer">>, <<"Color:">>, <<"Size:">>, <<"Style:">> }
    \cup (IF b = "safe"
          THEN { <<"Read", " ", "more">>, <<"Helpful">>, <<"Report">>,
                 <<"By", " ">>, <<"On", " ">>, <<"Reviewed">> }
          ELSE {})

\* the pattern's /i flag: letters compared with case folded
ToLowerCase(c) ==
    CASE c = "Verified" -> "verified" [] c = "Purchase" -> "purchase"
      [] c = "Top" -> "top" [] c = "Contributor" -> "contributor"
      [] c = "Vine" -> "vine" [] c = "Customer" -> "customer"
      [] c = "Color:" -> "color:" [] c = "Size:" -> "size:" [] c = "Style:" -> "style:"
      [] c = "Read" -> "read" [] c = "Helpful" -> "helpful" [] c = "Report" -> "report"
      [] c = "By" -> "by" [] c = "On" -> "on" [] c = "Reviewed" -> "reviewed"
      [] OTHER -> c

Fold(b, c) == IF b = "safe" THEN ToLowerCase(c) ELSE c

\* text.match(/^(Verified Purchase|...|Style:)/), with /i in the safe script
MatchesMetadata(b, t) ==
    \E p \in MetadataPrefixes(b) :
        /\ Len(t) >= Len(p)
        /\ \A k \in 1..Len(p) : Fold(b, t[k].c) = Fold(b, p[k])

\* ------------------------------------------------- scrapeReviewsFromPage

\* hostname.includes("amazon") ? AMAZON_... : hostname.includes("flipkart")
\* ? FLIPKART_... : []  -- the selectors are numbered in list order
\* variant: the amazon list used for every other site
ReviewSelectors_Default(b, h) ==
    IF "flipkart" \in h /\ "amazon" \notin h THEN 1..3
    ELSE 1..(IF b \in {"enhanced", "eager"} THEN 6 ELSE 4)
ReviewSelectors(b, h) ==
    IF "amazon" \in h THEN 1..(IF b \in {"enhanced", "eager"} THEN 6 ELSE 4)
    ELSE IF "flipkart" \in h THEN 1..3
    ELSE {}

\* document.querySelectorAll(selector): the matching elements, document order
QuerySelectorAll(d, selector) == SelectSeq(d, LAMBDA el : selector \in el.sels)

\* const seenTexts = new Set(): a set of the call's own
\* variant: one set kept for the life of the script
NewSeenTexts_Shared(last) == last
NewSeenTexts(last) == {}

\* the forEach callback; acc = [reviews, seen]
VisitElement(b, acc, el) ==
    The({ IF raw = <<>> THEN acc
          ELSE IF b = "basic"
          THEN \* content_script.js: if (text && !reviews.includes(text)) reviews.push(text)
               IF raw \in acc.seen THEN acc
               ELSE [reviews |-> Append(acc.reviews, raw), seen |-> acc.seen \cup {raw}]
          ELSE The({ IF TextLength(text) < MinReviewLength \/ text \in acc.seen THEN acc
                     ELSE IF MatchesMetadata(b, text) THEN acc
                     ELSE [reviews |-> Append(acc.reviews, text),
                           seen |-> acc.seen \cup {text}] :
                        text \in {Trim(CollapseWhitespace(raw))} }) :
             raw \in {Trim(el.text)} })

\* elements.forEach(...)
RECURSIVE ForEachElement(_, _, _)
ForEachElement(b, acc, els) ==
    IF els = <<>> THEN acc
    ELSE The({ ForEachElement(b, next, Tail(els)) :
                  next \in {VisitElement(b, acc, Head(els))} })

\* for (const selector of reviewSelectors), from selector number s on
RECURSIVE ForEachSelector(_, _, _, _, _)
ForEachSelector(b, h, d, acc, s) ==
    IF s \notin ReviewSelectors(b, h) THEN acc
    ELSE The({ ForEachSelector(b, h, d, next, s + 1) :
                  next \in {ForEachElement(b, acc, QuerySelectorAll(d, s))} })

\* the whole call; seen0 = the call's seenTexts when it starts
ScrapeReviewsFromPage(b, h, d, seen0) ==
    ForEachSelector(b, h, d, [reviews |-> <<>>, seen |-> seen0], 1)

\* ------------------------------------------------------------ documents
\* rendered texts (innerText) of the elements the documents are made of
RawLong ==
    <<Word("great", 5), Space(" ", 1), Word("battery", 7), Space(" ", 1),
      Word("lasts-all-day", 13)>>
\* the same words, laid out with line breaks and indentation
RawLongSpaced ==
    <<Space("\n", 2), Word("great", 5), Space("\t", 3), Word("battery", 7),
      Space(" ", 1), Word("lasts-all-day", 13), Space("\n", 1)>>
\* 20 code units
RawExact20 == <<Word("arrived", 7), Space(" ", 1), Word("on-time-ok!!", 12)>>
\* 21 code units as rendered, 19 once the whitespace run is collapsed
RawPadded19 == <<Word("arrived", 7), Space(" ", 3), Word("broken-box!", 11)>>
RawShort == <<Word("good", 4)>>
RawBlank == <<Space(" ", 2)>>
RawMeta ==
    <<Word("Verified", 8), Space(" ", 2), Word("Purchase", 8), Space(" ", 1),
      Word("great", 5)>>
RawOther == <<Word("stopped-working-after-a-week", 28)>>
RawOnTime == <<Word("on", 2), Space(" ", 1), Word("time-and-well-packed", 20)>>

\* an element: its rendered text and the review selectors (by number) it matches
Element(text, sels) == [text |-> text, sels |-> sels]

ElementKinds ==
    { Element(RawLong, {1}), Element(RawLongSpaced, {2, 4}), Element(RawExact20, {1}),
      Element(RawPadded19, {1}), Element(RawShort, {3}), Element(RawBlank, {1}),
      Element(RawMeta, {2, 4}), Element(RawOther, {3}), Element(RawOnTime, {6}) }

\* elements per document
MaxElems == 2
\* calls of scrapeReviewsFromPage observed on one page
MaxCalls == 2

\* elements that dynamic loading adds to a page
ArrivingKinds == { Element(RawLongSpaced, {2, 4}), Element(RawOther, {3}) }

Documents == UNION {[1..n -> ElementKinds] : n \in 0..MaxElems}
Hostnames == SUBSET {"amazon", "flipkart"}

\* ------------------------------------------- the Extractor, call by call
ExtractInit ==
    /\ PopupInit
    /\ RenderAtRest
    /\ build \in Builds
    /\ host \in Hostnames
    /\ doc \in Documents
    /\ ctl = NoControls
    /\ dom = "ok"
    /\ changes = 0
    /\ seenTexts = {}
    /\ pass = PassInit
    /\ calls = <<>>

\* one call of scrapeReviewsFromPage on the document as it is
Scrape ==
    /\ Len(calls) < MaxCalls
    /\ \E r \in {ScrapeReviewsFromPage(build, host, doc, NewSeenTexts(seenTexts))} :
        /\ seenTexts' = r.seen
        /\ calls' = Append(calls, [doc |-> doc, out |-> r.reviews])
    /\ UNCHANGED <<build, host, doc, ctl, dom, changes, pass>>
    /\ UNCHANGED <<pvars, svars>>

\* the page changes once between two calls: an element goes or one arrives
DocMutates ==
    /\ Len(calls) \in 1..(MaxCalls - 1)
    /\ doc = calls[Len(calls)].doc
    /\ \/ doc # <<>> /\ doc' = Tail(doc)
       \/ Len(doc) < MaxElems /\ \E el \in ArrivingKinds : doc' = Append(doc, el)
    /\ UNCHANGED <<build, host, ctl, dom, changes, seenTexts, pass, calls>>
    /\ UNCHANGED <<pvars, svars>>

ExtractNext == Scrape \/ DocMutates

ExtractSpec == ExtractInit /\ [][ExtractNext]_vars

\* ------------------------------------------------------------- controls
\* a read-more button ([data-hook="expand-collapse-content"]): more = its
\* innerText includes 'Read more'; marked = it carries class revuze-expanded
ReadMoreButton(more) == [more |-> more, marked |-> FALSE, clicks |-> 0]

\* a load-more link: the load-more selectors (by number) it matches, whether
\* it is rendered (offsetParent !== null), whether it carries class clicked
LoadMoreLink(sels, visible) ==
    [sels |-> sels, visible |-> visible, marked |-> FALSE, clicks |-> 0]

\* AMAZON_LOAD_MORE_SELECTORS, numbered in list order
LoadMoreSelectors == 1..5

\* expandAndLoadMoreReviews(maxAttempts = 2)
ExpandMaxAttempts == 2

\* the state a step of the content script works on: the pass, the controls
\* it clicks and marks, and seenTexts of the last extraction
Machine == [pass |-> pass, ctl |-> ctl, seen |-> seenTexts]

\* the review texts a page shows while a pass is under way
RawLongFull == RawLong \o <<Space(" ", 1), Word("and-charges-fast", 16)>>

CollectPages ==
    { <<>>,
      <<Element(RawLong, {1})>>,
      <<Element(RawLongFull, {1})>>,
      <<Element(RawLong, {1}), Element(RawOther, {3})>>,
      <<Element(RawOther, {3}), Element(RawExact20, {1})>>,
      <<Element(RawLongFull, {1}), Element(RawOther, {3}), Element(RawExact20, {1})>> }

\* what scrapeReviewsFromPage returns on each of these pages when it starts
\* with an empty seenTexts, computed once
PageExtractions ==
    [b \in Builds \cup {"eager"} |->
        [h \in {{}, {"amazon"}, {"flipkart"}, {"amazon", "flipkart"}} |->
            [d \in CollectPages |-> ScrapeReviewsFromPage(b, h, d, {})]]]

\* scrapeReviewsFromPage() called on the document as it is
Extracted(seen0) ==
    The({ IF seen = {} /\ doc \in CollectPages
          THEN PageExtractions[build][host][doc]
          ELSE ScrapeReviewsFromPage(build, host, doc, seen) :
             seen \in {NewSeenTexts(seen0)} })

\* err.message of the exception the DOM throws
DomErrorMessage ==
    IF dom = "nobody" THEN "Failed to execute 'observe' on 'MutationObserver'"
    ELSE "DOM access failed"

\* sendResponse({ reviews }) / sendResponse({ reviews: [], error })
Respond(m, reviews, error) ==
    [m EXCEPT !.pass.pc = "answered", !.pass.replies = Append(@, Resp(reviews, error))]

\* an exception inside `new Promise(async (resolve) => {...})`: the async
\* executor's own promise rejects, the promise under construction never settles
Hang(m) == [m EXCEPT !.pass.pc = "hung", !.pass.threw = TRUE]

\* an exception inside the executor of waitForReviews
ExecutorThrows(m) ==
    IF build = "basic"
    THEN \* new Promise(resolve => {...}): the promise rejects, .catch answers
         Respond([m EXCEPT !.pass.threw = TRUE], <<>>, DomErrorMessage)
    ELSE Hang(m)

\* a call of scrapeReviewsFromPage in the pass has returned r
Extraction(m, r) ==
    [m EXCEPT !.seen = r.seen, !.pass.extractions = Append(@, r.reviews)]

\* ------------------------------------- part_002: expandAndLoadMoreReviews
\* the test a read-more button must pass to be clicked
ShouldExpand(button) == button.more /\ (build = "safe" => ~button.marked)

ExpandedAny(buttons) == \E k \in 1..Len(buttons) : ShouldExpand(buttons[k])

\* readMoreButtons.forEach(button => { if (...) button.click() })
ClickReadMore(buttons) ==
    [k \in 1..Len(buttons) |->
        IF ShouldExpand(buttons[k])
        THEN [buttons[k] EXCEPT !.clicks = @ + 1, !.marked = @ \/ build = "safe"]
        ELSE buttons[k]]

\* document.querySelector(selector): the first match in document order, 0 = null
QuerySelector(links, selector) ==
    IF \E k \in 1..Len(links) : selector \in links[k].sels
    THEN CHOOSE k \in 1..Len(links) :
            /\ selector \in links[k].sels
            /\ \A j \in 1..(k - 1) : selector \notin links[j].sels
    ELSE 0

\* loadMoreBtn && loadMoreBtn.offsetParent !== null && !...contains('clicked')
\* variant: the `clicked` class not consulted
Clickable_Unmarked(links, selector) ==
    LET k == QuerySelector(links, selector)
    IN  k # 0 /\ links[k].visible

Clickable(links, selector) ==
    LET k == QuerySelector(links, selector)
    IN  k # 0 /\ links[k].visible /\ (build = "eager" \/ ~links[k].marked)

\* the link the for loop over the load-more selectors clicks, 0 = none
LoadMoreTarget(links) ==
    LET found == {s \in LoadMoreSelectors : Clickable(links, s)}
    IN  IF found = {} THEN 0
        ELSE QuerySelector(links, CHOOSE s \in found : \A t \in found : s <= t)

\* if (currentReviews.length > totalReviews.length) totalReviews = currentReviews
\* variant: the newest extraction always taken
Replaces_Always(current, total) == TRUE
Replaces(current, total) == Len(current) > Len(total)

\* variant: the expander's result thrown away
Finish_Dropped(m) == Respond(m, <<>>, Absent)

\* resolve(totalReviews), then waitForReviews' continuation: the larger of
\* the two sets is resolved and sent
Finish(m) ==
    LET all == IF Len(m.pass.totalReviews) > Len(m.pass.allReviews)
               THEN m.pass.totalReviews ELSE m.pass.allReviews
    IN  Respond([m EXCEPT !.pass.allReviews = all], all, Absent)

\* the for loop over the load-more selectors, up to the wait that follows
LoadMorePhase(m) ==
    IF dom = "throws" THEN Hang(m)
    ELSE LET k == LoadMoreTarget(m.ctl.loadMore) IN
         IF k = 0 THEN Finish(m)
         ELSE [m EXCEPT !.ctl.loadMore[k].marked = TRUE,
                        !.ctl.loadMore[k].clicks = @ + 1,
                        !.pass.pc = "loadWait"]

\* while (attempts < maxAttempts)
\* variant: a loop that allows one attempt more
AttemptsLeft_OneMore(attempts, maxAttempts) == attempts < maxAttempts + 1
AttemptsLeft(attempts, maxAttempts) == attempts < maxAttempts

\* while (attempts < maxAttempts) { attempts++; click the read-more buttons; ...
LoopIteration(m) ==
    IF ~AttemptsLeft(m.pass.attempts, ExpandMaxAttempts) THEN Finish(m)
    ELSE LET m1 == [m EXCEPT !.pass.attempts = @ + 1,
                             !.ctl.readMore = ClickReadMore(@)]
         IN  IF ExpandedAny(m.ctl.readMore)
             THEN [m1 EXCEPT !.pass.pc = "readWait"]
             ELSE LoadMorePhase(m1)

\* expandAndLoadMoreReviews(): totalReviews = scrapeReviewsFromPage(), the loop
StartExpander(m) ==
    The({ LoopIteration([Extraction(m, r) EXCEPT !.pass.totalReviews = r.reviews,
                                                 !.pass.attempts = 0]) :
             r \in {Extracted(m.seen)} })

\* ------------------------------------------------- the collection pass
\* new MutationObserver(...); observer.observe(document.body, ...); setTimeout
StartObserver(m) ==
    IF dom = "nobody" THEN ExecutorThrows(m)
    ELSE [m EXCEPT !.pass.observer = "connected", !.pass.pc = "observing"]

\* let allReviews = scrapeReviewsFromPage(), r being what the call returned
FirstExtraction(m, r) ==
    [Extraction(m, r) EXCEPT !.pass.allReviews = r.reviews, !.pass.initial = r.reviews]

\* part_002 waitForReviews, from the request to its first wait
EnhancedStart(m) ==
    IF dom = "throws" THEN ExecutorThrows(m)
    ELSE The({ IF Len(m1.pass.allReviews) > 0 THEN StartExpander(m1) ELSE StartObserver(m1) :
                  m1 \in {FirstExtraction(m, Extracted(m.seen))} })

\* content_script.js waitForReviews, from the request to its first wait
BasicStart(m) ==
    IF dom = "throws" THEN ExecutorThrows(m)
    ELSE The({ IF Len(m1.pass.allReviews) > 0 THEN Respond(m1, m1.pass.allReviews, Absent)
               ELSE StartObserver(m1) :
                  m1 \in {FirstExtraction(m, Extracted(m.seen))} })

\* part_003 collectReviews' catch: resolve([])
SafeCatch(m) == Respond([m EXCEPT !.pass.threw = TRUE], <<>>, Absent)

\* part_003: what follows `await safeExpandReviews()` in collectReviews
SafeAfterExpand(m, expanded) ==
    LET reviews == IF Len(expanded) > Len(m.pass.allReviews)
                   THEN expanded ELSE m.pass.allReviews
    IN  Respond([m EXCEPT !.pass.allReviews = reviews], reviews, Absent)

\* part_003 collectReviews, from the request to its first wait
SafeStart(m) ==
    IF dom = "throws" THEN SafeCatch(m)
    ELSE The({ IF Len(m1.pass.allReviews) > 0
               THEN \* safeExpandReviews()
                    IF ExpandedAny(m.ctl.readMore)
                    THEN [m1 EXCEPT !.ctl.readMore = ClickReadMore(@),
                                    !.pass.pc = "safeWait"]
                    ELSE The({ SafeAfterExpand(Extraction(m1, r), r.reviews) :
                                  r \in {Extracted(m1.seen)} })
               ELSE [m1 EXCEPT !.pass.pc = "retryWait"] :
                  m1 \in {FirstExtraction(m, Extracted(m.seen))} })

\* ------------------------------------------ part_001: expansion first
\* part_001 is the content script that runs the expander before any
\* extraction; its extractor is the one of part_002
EagerMaxAttempts == 3

\* [...new Set([...totalReviews, ...currentReviews])]
RECURSIVE SetMerge(_, _)
SetMerge(total, current) ==
    IF current = <<>> THEN total
    ELSE The({ SetMerge(t, c) :
                  t \in { IF \E k \in 1..Len(total) : total[k] = Head(current)
                          THEN total ELSE Append(total, Head(current)) },
                  c \in {Tail(current)} })

\* part_001 waitForReviews after `await expandAndLoadMoreReviews()`
EagerAfterExpand(m) ==
    IF Len(m.pass.totalReviews) > 0 THEN Respond(m, m.pass.totalReviews, Absent)
    ELSE IF dom = "throws" THEN Hang(m)
    ELSE The({ IF Len(m1.pass.allReviews) > 0 THEN Respond(m1, m1.pass.allReviews, Absent)
               ELSE StartObserver(m1) :
                  m1 \in {FirstExtraction(m, Extracted(m.seen))} })

\* while (attempts < maxAttempts) { attempts++; click the read-more buttons;
\* wait 1500 ms
EagerIteration(m) ==
    IF ~AttemptsLeft(m.pass.attempts, EagerMaxAttempts) THEN EagerAfterExpand(m)
    ELSE IF dom = "throws" THEN Hang(m)
    ELSE [m EXCEPT !.pass.attempts = @ + 1,
                   !.ctl.readMore = ClickReadMore(@),
                   !.pass.pc = "eagerReadWait"]

\* part_001 waitForReviews, from the request to its first wait
EagerStart(m) == EagerIteration([m EXCEPT !.pass.totalReviews = <<>>, !.pass.attempts = 0])

\* after the 1500 ms: extract, merge, look for a load-more link and click it
EagerExtractAndLoadMore(m) ==
    IF dom = "throws" THEN Hang(m)
    ELSE The({ The({ IF k = 0 THEN EagerAfterExpand(m1)
                     ELSE [m1 EXCEPT !.ctl.loadMore[k].clicks = @ + 1,
                                     !.pass.pc = "eagerLoadWait"] :
                        k \in {LoadMoreTarget(m1.ctl.loadMore)} }) :
                  m1 \in { [Extraction(m, r) EXCEPT
                               !.pass.totalReviews = SetMerge(@, r.reviews)] :
                             r \in {Extracted(m.seen)} } })

\* r is what the step leaves behind
Becomes(r) ==
    \E m \in {r} :
        /\ pass' = m.pass
        /\ ctl' = m.ctl
        /\ seenTexts' = m.seen

\* chrome.runtime.onMessage listener: request.action === "scrapeReviews"
CsOnMessage ==
    /\ pass.pc = "idle"
    /\ Becomes(CASE build = "enhanced" -> EnhancedStart(Machine)
                 [] build = "basic" -> BasicStart(Machine)
                 [] build = "safe" -> SafeStart(Machine)
                 [] build = "eager" -> EagerStart(Machine))
    /\ UNCHANGED <<build, host, doc, dom, changes, calls>>
    /\ UNCHANGED <<pvars, svars>>

\* part_002: the 1000 ms wait after the read-more clicks is over
ReadWaitTimer ==
    /\ pass.pc = "readWait"
    /\ UNCHANGED <<build, host, doc, dom, changes, calls>>
    /\ UNCHANGED <<pvars, svars>>
    /\ Becomes(LoadMorePhase(Machine))

\* part_002: the 2000 ms wait after the load-more click is over
LoadWaitTimer ==
    /\ pass.pc = "loadWait"
    /\ UNCHANGED <<build, host, doc, dom, changes, calls>>
    /\ UNCHANGED <<pvars, svars>>
    /\ Becomes(IF dom = "throws" THEN Hang(Machine)
               ELSE The({ IF Replaces(r.reviews, pass.totalReviews)
                          THEN LoopIteration([Extraction(Machine, r) EXCEPT
                                                 !.pass.totalReviews = r.reviews])
                          ELSE Finish(Extraction(Machine, r)) :
                             r \in {Extracted(seenTexts)} }))

\* part_003: the 1000 ms wait of safeExpandReviews is over
SafeWaitTimer ==
    /\ pass.pc = "safeWait"
    /\ UNCHANGED <<build, host, doc, dom, changes, calls>>
    /\ UNCHANGED <<pvars, svars>>
    /\ Becomes(IF dom = "throws" THEN Hang(Machine)
               ELSE The({ SafeAfterExpand(Extraction(Machine, r), r.reviews) :
                             r \in {Extracted(seenTexts)} }))

\* part_003: the 2000 ms wait for dynamic content is over
RetryWaitTimer ==
    /\ pass.pc = "retryWait"
    /\ UNCHANGED <<build, host, doc, dom, changes, calls>>
    /\ UNCHANGED <<pvars, svars>>
    /\ Becomes(IF dom = "throws" THEN SafeCatch(Machine)
               ELSE The({ Respond([Extraction(Machine, r) EXCEPT
                                      !.pass.allReviews = r.reviews],
                                  r.reviews, Absent) :
                             r \in {Extracted(seenTexts)} }))

\* part_001: the 1500 ms wait after the read-more clicks is over
EagerReadWaitTimer ==
    /\ pass.pc = "eagerReadWait"
    /\ UNCHANGED <<build, host, doc, dom, changes, calls>>
    /\ UNCHANGED <<pvars, svars>>
    /\ Becomes(EagerExtractAndLoadMore(Machine))

\* part_001: the 2000 ms wait after the load-more click is over
EagerLoadWaitTimer ==
    /\ pass.pc = "eagerLoadWait"
    /\ UNCHANGED <<build, host, doc, dom, changes, calls>>
    /\ UNCHANGED <<pvars, svars>>
    /\ Becomes(EagerIteration(Machine))

\* observer.disconnect() in the timeout callback
\* variant: the callback without that call
ObserverAfterTimeout_Kept(observer) == observer
ObserverAfterTimeout(observer) == "disconnected"

\* the setTimeout(..., timeout) callback: disconnect, resolve(allReviews)
CollectTimeout ==
    /\ pass.pc = "observing"
    /\ UNCHANGED <<build, host, doc, dom, changes, calls>>
    /\ UNCHANGED <<pvars, svars>>
    /\ Becomes(Respond([Machine EXCEPT !.pass.observer = ObserverAfterTimeout(@)],
                       pass.allReviews, Absent))

\* ------------------------------------------------------------- the page
ControlSetups ==
    { [readMore |-> rm, loadMore |-> lm] :
        rm \in { <<>>, <<ReadMoreButton(TRUE)>> },
        lm \in { <<>>,
                 <<LoadMoreLink({1}, TRUE)>>,
                 <<LoadMoreLink({4, 5}, TRUE), LoadMoreLink({5}, TRUE)>>,
                 <<LoadMoreLink({2}, FALSE), LoadMoreLink({3}, TRUE)>> } }

\* content changes of the page during one pass
MaxPageChanges == 2

Waiting ==
    pass.pc \in {"readWait", "loadWait", "observing", "safeWait", "retryWait",
                 "eagerReadWait", "eagerLoadWait"}

\* the MutationObserver callback, run for a change of the document d
\* variant: the newest extraction always kept
ObserverCallback_Latest(m, d) ==
    IF dom = "throws" THEN [m EXCEPT !.pass.threw = TRUE]
    ELSE The({ [Extraction(m, r) EXCEPT !.pass.allReviews = r.reviews] :
                  r \in {ScrapeReviewsFromPage(build, host, d, NewSeenTexts(m.seen))} })
ObserverCallback(m, d) ==
    IF dom = "throws" THEN [m EXCEPT !.pass.threw = TRUE]
    ELSE The({ [Extraction(m, r) EXCEPT
                   !.pass.allReviews = IF Len(r.reviews) > Len(@) THEN r.reviews ELSE @] :
                  r \in {ScrapeReviewsFromPage(build, host, d, NewSeenTexts(m.seen))} })

\* the page replaces its review elements (a click took effect, content
\* arrived); a connected observer's callback runs before any timer does
DocChanges ==
    /\ Waiting
    /\ changes < MaxPageChanges
    /\ changes' = changes + 1
    /\ \E d \in CollectPages \ {doc} :
        /\ doc' = d
        /\ Becomes(IF pass.observer = "connected"
                   THEN ObserverCallback(Machine, d) ELSE Machine)
    /\ UNCHANGED <<build, host, dom, calls>>
    /\ UNCHANGED <<pvars, svars>>

\* a clicked read-more button changes its label (`Read less`)
ButtonRelabels ==
    /\ Waiting
    /\ \E k \in 1..Len(ctl.readMore) :
        /\ ctl.readMore[k].more
        /\ ctl.readMore[k].clicks > 0
        /\ ctl' = [ctl EXCEPT !.readMore[k].more = FALSE]
    /\ UNCHANGED <<build, host, doc, dom, changes, seenTexts, pass, calls>>
    /\ UNCHANGED <<pvars, svars>>

\* from now on DOM access throws
DomBreaks ==
    /\ Waiting
    /\ dom = "ok"
    /\ dom' = "throws"
    /\ UNCHANGED <<build, host, doc, ctl, changes, seenTexts, pass, calls>>
    /\ UNCHANGED <<pvars, svars>>

CollectInit ==
    /\ PopupInit
    /\ RenderAtRest
    /\ build \in Builds \cup {"eager"}
    /\ host \in {{"amazon"}, {}}
    /\ dom \in {"ok", "nobody", "throws"}
    /\ doc \in CollectPages
    /\ ctl \in ControlSetups
    /\ dom = "nobody" => doc = <<>> /\ ctl = NoControls
    /\ changes = 0
    /\ seenTexts = {}
    /\ pass = PassInit
    /\ calls = <<>>

CollectNext ==
    \/ CsOnMessage
    \/ ReadWaitTimer
    \/ LoadWaitTimer
    \/ SafeWaitTimer
    \/ RetryWaitTimer
    \/ EagerReadWaitTimer
    \/ EagerLoadWaitTimer
    \/ CollectTimeout
    \/ DocChanges
    \/ ButtonRelabels
    \/ DomBreaks

CollectSpec == CollectInit /\ [][CollectNext]_vars

\* ------------------------------------------ several requests to one page
\* scrapeReviews requests one page receives
MaxPasses == 2

\* the onMessage listener runs for a further request after the earlier pass
\* has answered: the locals of the pass are fresh, the document and the
\* classes set on its elements are as the earlier pass left them
CsOnMessageAgain ==
    /\ pass.pc = "answered"
    /\ pass.request < MaxPasses
    /\ Becomes(The({ CASE build = "enhanced" -> EnhancedStart(fresh)
                       [] build = "basic" -> BasicStart(fresh)
                       [] build = "safe" -> SafeStart(fresh)
                       [] build = "eager" -> EagerStart(fresh) :
                     fresh \in {[Machine EXCEPT
                                   !.pass = [PassInit EXCEPT
                                                !.request = pass.request + 1]]} }))
    /\ UNCHANGED <<build, host, doc, dom, changes, calls>>
    /\ UNCHANGED <<pvars, svars>>

\* part_002 and part_003 on a page whose DOM works
RepeatInit == CollectInit /\ build \in {"enhanced", "safe"} /\ dom = "ok"

RepeatNext ==
    \/ CsOnMessage
    \/ CsOnMessageAgain
    \/ ReadWaitTimer
    \/ LoadWaitTimer
    \/ SafeWaitTimer
    \/ RetryWaitTimer
    \/ CollectTimeout
    \/ DocChanges
    \/ ButtonRelabels

RepeatSpec == RepeatInit /\ [][RepeatNext]_vars

\* the expander of part_002 and of part_001 on a page whose DOM works; a
\* timer that is due fires
ExpandInit == CollectInit /\ build \in {"enhanced", "eager"} /\ dom = "ok"

ExpandTimers ==
    \/ ReadWaitTimer
    \/ LoadWaitTimer
    \/ EagerReadWaitTimer
    \/ EagerLoadWaitTimer

ExpandNext ==
    \/ CsOnMessage
    \/ ExpandTimers
    \/ CollectTimeout
    \/ DocChanges
    \/ ButtonRelabels

ExpandSpec == ExpandInit /\ [][ExpandNext]_vars /\ WF_vars(ExpandTimers)

\* ------------------------------------- one analysis, from click to view
\* The popup, the relay and the content script together, for a single click
\* on Analyze: the forwarded request starts a collection pass on the page and
\* the relay's callback gets what that pass sends.

\* the forwarded message reaches the content script's listener
PageReceives == relay[1].pc = "forwarded" /\ CsOnMessage

\* the pass has called sendResponse: the relay's callback runs with its argument
RelayOnPageReply ==
    /\ pass.pc = "answered"
    /\ ForwardCallback(1, FALSE, pass.replies[1])
    /\ UNCHANGED <<cvars, svars>>

\* no content script listens in the tab: the callback runs with lastError set
RelayOnNoReceiver ==
    /\ pass.pc = "idle"
    /\ ForwardCallback(1, TRUE, Undefined)
    /\ UNCHANGED <<cvars, svars>>

\* the listener returned true and the pass can never call sendResponse: the
\* browser may close the port once the function is collected, at no known
\* time if at all, and the relay's callback then runs with lastError set
RelayOnPortClosed ==
    /\ pass.pc = "hung"
    /\ ForwardCallback(1, TRUE, Undefined)
    /\ UNCHANGED <<cvars, svars>>

\* the pages an analysis is started on
LiveInit ==
    /\ PopupInit
    /\ RenderAtRest
    /\ build \in Builds
    /\ host = {"amazon"}
    /\ dom \in {"ok", "nobody", "throws"}
    /\ doc \in {<<>>, <<Element(RawLong, {1})>>}
    /\ ctl \in {NoControls,
                [readMore |-> <<ReadMoreButton(TRUE)>>,
                 loadMore |-> <<LoadMoreLink({1}, TRUE)>>]}
    /\ dom = "nobody" => doc = <<>> /\ ctl = NoControls
    /\ changes = 0
    /\ seenTexts = {}
    /\ pass = PassInit
    /\ calls = <<>>

\* what the browser, the timers and the service are bound to do in the end
Progress ==
    \/ RelayOnMessage(1)
    \/ RelayOnTabs(1)
    \/ PageReceives
    \/ RelayOnPageReply
    \/ ReadWaitTimer
    \/ LoadWaitTimer
    \/ SafeWaitTimer
    \/ RetryWaitTimer
    \/ CollectTimeout
    \/ ScrapeCallback(1)
    \/ SubmitResponse(1)
    \/ PollResponse(1)
    \/ PollTimer(1)

LiveNext ==
    \/ StartAnalysis /\ started = 0
    \/ ScrapeLastError(1)
    \/ RelayOnNoReceiver
    \/ RelayOnPortClosed
    \/ DocChanges
    \/ ButtonRelabels
    \/ DomBreaks
    \/ Progress

\* every request gets its response or its failure, every timer fires
LiveSpec == LiveInit /\ [][LiveNext]_vars /\ WF_vars(Progress)

\* ======================================================= the derived scores
\* -------------------------------------------------------------- arithmetic
MathMin(a, b) == IF a <= b THEN a ELSE b
MathMax(a, b) == IF a >= b THEN a ELSE b
MathAbs(a) == IF a < 0 THEN -a ELSE a

\* confidence scores are kept in units of 1/ScoreScale of a point, in which
\* every term of the sum is an integer (fractions come in hundredths,
\* ratings in tenths, breakdowns hold 1, 2 or 3 categories)
ScoreScale == 30

\* Math.round of a non-negative score, in points
MathRound(score) == (2 * score + ScoreScale) \div (2 * ScoreScale)

\* ------------------------------------------------ renderPurchaseConfidence
\* data.category_breakdown.reduce((sum, cat) => sum + cat.rating, 0)
RECURSIVE SumRatings(_)
SumRatings(cats) == IF cats = <<>> THEN 0 ELSE Head(cats).rating + SumRatings(Tail(cats))

\* confidenceScore before Math.max(0, Math.min(100, ...)):
\* 50 + (positive - negative) * 40 + Math.min(nReviews / 50, 1) * 20
\*    + (avgCategoryRating - 3) * 10 + (1 - |positive - negative|) * 10
ConfidenceSum(d) ==
    LET skew == d.sentiment.positive - d.sentiment.negative
        cats == d.category_breakdown
    IN  50 * ScoreScale
        + (skew * 40 * ScoreScale) \div 100
        + MathMin((d.n_reviews * 20 * ScoreScale) \div 50, 20 * ScoreScale)
        + (IF Len(cats) > 0
           THEN (SumRatings(cats) * ScoreScale) \div Len(cats) - 3 * 10 * ScoreScale
           ELSE 0)
        + ((100 - MathAbs(skew)) * 10 * ScoreScale) \div 100

\* confidenceScore = Math.max(0, Math.min(100, confidenceScore))
\* variant: the sum left as it is
ClampConfidence_None(score) == score
ClampConfidence(score) == MathMax(0, MathMin(100 * ScoreScale, score))

ConfidenceScore(d) == ClampConfidence(ConfidenceSum(d))

\* the if / else if chain that picks confidenceLabel
ConfidenceLabel(score) ==
    IF score >= 80 * ScoreScale THEN "High Confidence"
    ELSE IF score >= 60 * ScoreScale THEN "Good Confidence"
    ELSE IF score >= 40 * ScoreScale THEN "Moderate Risk"
    ELSE "High Risk"

\* what renderPurchaseConfidence shows: the bar's width (score), the text
\* `${Math.round(confidenceScore)}% ${confidenceLabel}`
RenderPurchaseConfidence(d) ==
    [score |-> ConfidenceScore(d),
     percent |-> MathRound(ConfidenceScore(d)),
     label |-> ConfidenceLabel(ConfidenceScore(d))]

\* ------------------------------------------------- renderAuthenticityScore
Scripts == {"main", "backup"}

\* Factor 1 and Factor 2, the same in popup.js and popup-backup.js
VolumeAndSkew(d) ==
    75 + (IF d.n_reviews < 5 THEN -20 ELSE IF d.n_reviews > 100 THEN 10 ELSE 0)
       + (IF (d.sentiment.positive > 90 \/ d.sentiment.negative > 90) /\ d.n_reviews > 20
          THEN -15 ELSE 0)

\* popup.js Factor 3 (categories found) and Factor 4 (keyword count)
MainFactors(d) ==
    (IF Len(d.category_breakdown) >= 3 THEN 10
     ELSE IF Len(d.category_breakdown) = 0 THEN -10 ELSE 0)
    + (IF Len(d.top_positive) + Len(d.top_negative) >= 15 THEN 5 ELSE 0)

\* popup-backup.js Factor 3: data.authenticity_metrics, each one if truthy
BackupFactors(d) ==
    LET m == d.authenticity_metrics
    IN  (IF m.avg_review_length = 0 THEN 0
         ELSE IF m.avg_review_length > 100 THEN 8
         ELSE IF m.avg_review_length < 30 THEN -10 ELSE 0)
        + (IF m.keyword_diversity = 0 THEN 0
           ELSE IF m.keyword_diversity >= 20 THEN 12
           ELSE IF m.keyword_diversity < 8 THEN -8 ELSE 0)
        + (IF m.category_coverage = 0 THEN 0
           ELSE IF m.category_coverage >= 4 THEN 10
           ELSE IF m.category_coverage <= 1 THEN -12 ELSE 0)

\* authenticityScore = Math.max(30, Math.min(95, authenticityScore)), in points
AuthenticityScore(s, d) ==
    MathMax(30, MathMin(95, VolumeAndSkew(d)
                            + (IF s = "main" THEN MainFactors(d) ELSE BackupFactors(d))))

\* the trust indicators of the popup
Indicators == {"length", "emotion", "specific"}

\* Math.random(), in hundredths: the values next to the one where the class changes
RandomDraws == {33, 34}

\* popup.js: score = Math.random() * 30 + 70, then the class by score
IndicatorClass_Random(random) ==
    LET score == random * 30 + 70 * 100
    IN  IF score >= 80 * 100 THEN "high" ELSE IF score >= 60 * 100 THEN "medium" ELSE "low"

\* popup-backup.js: the class of each indicator from the metrics
IndicatorClass_Metrics(indicator, d) ==
    LET m == d.authenticity_metrics
        lengthScore == IF m.avg_review_length = 0 THEN 50 ELSE m.avg_review_length
        emotionBalance == 100 - m.sentiment_variance
    IN  CASE indicator = "length" ->
                IF lengthScore > 80 THEN "high" ELSE IF lengthScore > 40 THEN "medium" ELSE "low"
          [] indicator = "emotion" ->
                IF emotionBalance > 70 THEN "high"
                ELSE IF emotionBalance > 40 THEN "medium" ELSE "low"
          [] indicator = "specific" ->
                IF m.category_coverage >= 4 THEN "high"
                ELSE IF m.category_coverage >= 2 THEN "medium" ELSE "low"

\* the className each indicator is left with; draws = what Math.random()
\* returned for each indicator
TrustIndicators(s, d, draws) ==
    [i \in Indicators |->
        IF s = "main" THEN IndicatorClass_Random(draws[i]) ELSE IndicatorClass_Metrics(i, d)]

\* -------------------------------------------------- renderLoveHateAnalysis
\* a list item: a fixed phrase, or a phrase built around the keyword's term
Phrase(text, term) == [text |-> text, term |-> term]

\* kw.term.toLowerCase()
LowerTerm(term) == IF term = "Camera" THEN "camera" ELSE term

\* benefits[kw.term.toLowerCase()] || `Excellent ${kw.term}`
LovePoint(term) ==
    CASE LowerTerm(term) = "battery" -> Phrase("Long-lasting battery life", Absent)
      [] LowerTerm(term) = "camera" -> Phrase("Great photo quality", Absent)
      [] LowerTerm(term) = "price" -> Phrase("Good value for money", Absent)
      [] OTHER -> Phrase("Excellent ", term)

\* complaints[kw.term.toLowerCase()] || `Issues with ${kw.term}`
HatePoint(term) ==
    CASE LowerTerm(term) = "battery" -> Phrase("Battery drains quickly", Absent)
      [] LowerTerm(term) = "camera" -> Phrase("Poor photo quality", Absent)
      [] LowerTerm(term) = "price" -> Phrase("Overpriced for features", Absent)
      [] LowerTerm(term) = "service" -> Phrase("Customer service problems", Absent)
      [] OTHER -> Phrase("Issues with ", term)

\* keywords.slice(0, 4)
Slice4(keywords) == SubSeq(keywords, 1, MathMin(4, Len(keywords)))

\* the items of the love list and of the hate list
LovePoints(d) ==
    IF Len(d.top_positive) > 0
    THEN [k \in 1..Len(Slice4(d.top_positive)) |-> LovePoint(d.top_positive[k])]
    ELSE <<Phrase("Generally positive feedback", Absent)>>

HatePoints(d) ==
    IF Len(d.top_negative) > 0
    THEN [k \in 1..Len(Slice4(d.top_negative)) |-> HatePoint(d.top_negative[k])]
    ELSE <<Phrase("Minor concerns noted", Absent)>>

\* ------------------------------------------------- renderCategoryBreakdown
\* category scores are in thousandths of a star
CategoryItem(name, score, sentiment) == [name |-> name, score |-> score, sentiment |-> sentiment]

\* an entry of a non-empty data.category_breakdown
ShownCategory(cat) ==
    CategoryItem(cat.name, cat.rating * 100,
                 IF cat.sentiment_score >= 10 THEN "positive"
                 ELSE IF cat.sentiment_score <= -10 THEN "negative" ELSE "neutral")

\* mockCategories, adjusted by (positive - negative) * 1.5 and kept in 1..5
MockCategory(name, score, d) ==
    LET adjustedScore ==
            MathMax(1000, MathMin(5000,
                score + (d.sentiment.positive - d.sentiment.negative) * 15))
    IN  CategoryItem(name, adjustedScore,
                     IF adjustedScore >= 3500 THEN "positive"
                     ELSE IF adjustedScore >= 2500 THEN "neutral" ELSE "negative")

CategoryView(d) ==
    IF Len(d.category_breakdown) > 0
    THEN [k \in 1..Len(d.category_breakdown) |-> ShownCategory(d.category_breakdown[k])]
    ELSE << MockCategory("Overall Quality", 3500, d),
            MockCategory("Value for Money", 3200, d),
            MockCategory("User Experience", 3000, d) >>

\* ------------------------------------------- updateUI('results', data)
\* everything one rendering of d derives and shows
Synthesize(s, d, draws) ==
    [confidence |-> RenderPurchaseConfidence(d),
     authenticity |-> AuthenticityScore(s, d),
     indicators |-> TrustIndicators(s, d, draws),
     lovePoints |-> LovePoints(d),
     hatePoints |-> HatePoints(d),
     categories |-> CategoryView(d)]

\* ------------------------------------------------------ results to render
\* renderings of one result
MaxRenders == 2

Sentiments ==
    { Sentiment(p, 0) : p \in {0, 50, 70, 100} }
    \cup { Sentiment(p, 20) : p \in {0, 50, 70} }
    \cup { Sentiment(0, 95) }

ReviewCounts == {0, 3, 40, 150}

Breakdowns ==
    { <<>>,
      <<Category("service", 10, -80)>>,
      <<Category("battery", 42, 30), Category("build", 27, 0)>>,
      <<Category("build", 20, -40), Category("price", 20, 5)>>,
      <<Category("battery", 35, 30), Category("screen", 50, 60), Category("price", 20, -40)>> }

ManyTerms == [k \in 1..15 |-> IF k = 1 THEN "zoom" ELSE "battery"]

Keywords ==
    { [pos |-> <<>>, neg |-> <<>>],
      [pos |-> <<"battery", "zoom">>, neg |-> <<"Camera", "service", "hinge">>],
      [pos |-> ManyTerms, neg |-> <<>>] }

MetricsCases == { NoMetrics, Metrics(120, 24, 4, 10), Metrics(20, 5, 1, 70) }

Payloads ==
    { AnalysisResult(s, n, c, k.pos, k.neg, m) :
        s \in Sentiments, n \in ReviewCounts, c \in Breakdowns,
        k \in Keywords, m \in MetricsCases }

ScoreInit ==
    /\ PopupInit
    /\ PageAtRest
    /\ script \in Scripts
    /\ payload \in Payloads
    /\ script = "main" => payload.authenticity_metrics = NoMetrics   \* popup.js reads none
    /\ renders = <<>>
    /\ HandoffAtRest

\* updateUI('results', data) for the result the popup holds
RenderResults ==
    /\ Len(renders) < MaxRenders
    /\ \E draws \in [Indicators -> RandomDraws] :
        renders' = Append(renders, Synthesize(script, payload, draws))
    /\ UNCHANGED <<script, payload, hvars>>
    /\ UNCHANGED <<pvars, cvars>>

ScoreNext == RenderResults

ScoreSpec == ScoreInit /\ [][ScoreNext]_vars

\* ================================================== the handoff to the viewer
\* popup-simple.js and popup-backup.js hand the rendered result to the
\* analysis viewer through localStorage; both scripts have the same code

MaxJobs == 2
MaxClicks == 3
MaxNow == 3

\* `analysis_${Date.now()}`
AnalysisId(time) == <<"analysis", time>>

\* `revuze_${analysisId}`
StorageKey(analysisId) == <<"revuze">> \o analysisId

\* frontendData: the result, the page's tab and the job id
FrontendData(tab) ==
    [result |-> currentAnalysisData, source |-> "extension", page_info |-> tab,
     job_id |-> currentJobId]

\* localStorage.setItem(key, value)
SetItem(store, key, value) ==
    [k \in DOMAIN store \cup {key} |-> IF k = key THEN value ELSE store[k]]

\* analyzeReviews: the service answered the submit with a job id
SubmitAnswered ==
    /\ submitted < MaxJobs
    /\ submitted' = submitted + 1
    /\ currentJobId' = submitted + 1
    /\ UNCHANGED <<currentAnalysisData, shown, now, clicks, pendingQueries, localStorage,
                   writes>>
    /\ UNCHANGED <<script, payload, renders>>
    /\ UNCHANGED <<pvars, cvars>>

\* updateUI('results', result) for the result of job j
ResultsShown(j) ==
    /\ j \in (1..submitted) \ shown
    /\ shown' = shown \cup {j}
    /\ currentAnalysisData' = j
    /\ UNCHANGED <<currentJobId, submitted, now, clicks, pendingQueries, localStorage,
                   writes>>
    /\ UNCHANGED <<script, payload, renders>>
    /\ UNCHANGED <<pvars, cvars>>

\* openDetailedAnalysis: a click on `View Detailed Analysis`
OpenDetailedAnalysis ==
    /\ currentAnalysisData # 0
    /\ clicks < MaxClicks
    /\ clicks' = clicks + 1
    /\ pendingQueries' = pendingQueries + 1
    /\ UNCHANGED <<currentAnalysisData, currentJobId, submitted, shown, now, localStorage,
                   writes>>
    /\ UNCHANGED <<script, payload, renders>>
    /\ UNCHANGED <<pvars, cvars>>

\* the key the callback stores under at time `time`
HandoffKey(time) == StorageKey(AnalysisId(time))

\* the chrome.tabs.query callback of openDetailedAnalysis; with no tab,
\* `currentTab.url` throws and nothing is stored
TabsQueried(tabs) ==
    /\ pendingQueries > 0
    /\ pendingQueries' = pendingQueries - 1
    /\ IF tabs = <<>>
       THEN UNCHANGED <<localStorage, writes>>
       ELSE /\ localStorage' = SetItem(localStorage, HandoffKey(now), FrontendData(tabs[1]))
            /\ writes' = Append(writes, [key |-> HandoffKey(now),
                                         value |-> FrontendData(tabs[1])])
    /\ UNCHANGED <<currentAnalysisData, currentJobId, submitted, shown, now, clicks>>
    /\ UNCHANGED <<script, payload, renders>>
    /\ UNCHANGED <<pvars, cvars>>

\* a millisecond passes
Tick ==
    /\ now < MaxNow
    /\ now' = now + 1
    /\ UNCHANGED <<currentAnalysisData, currentJobId, submitted, shown, clicks,
                   pendingQueries, localStorage, writes>>
    /\ UNCHANGED <<script, payload, renders>>
    /\ UNCHANGED <<pvars, cvars>>

HandoffInit == PopupInit /\ PageAtRest /\ RenderAtRest

HandoffNext ==
    \/ SubmitAnswered
    \/ \E j \in 1..MaxJobs : ResultsShown(j)
    \/ OpenDetailedAnalysis
    \/ \E tabs \in TabLists : TabsQueried(tabs)
    \/ Tick

HandoffSpec == HandoffInit /\ [][HandoffNext]_vars

\* ================================================================ claims
\* ---------------------------------------------------------- pollForResults
\* the first n answers recorded in hist are all `pending`
AllPending(n) == \A k \in 1..n : Kind(hist[k]) = "pending"

\* C1: when the service answers `pending` to the first N status requests
\* (0 <= N < maxAttempts) and `done` to the next one, pollForResults returns
\* that `done` payload after exactly N+1 status requests; a request is sent
\* only after the previous one has completed.
PollReturnsFirstDone ==
    /\ \A n \in 0..(MaxAttempts - 1) :
          (Len(hist) = n + 1 /\ AllPending(n) /\ Kind(hist[n + 1]) = "done")
          => /\ an[1].pc = "shown"
             /\ an[1].result = hist[n + 1].body
             /\ an[1].issued = n + 1
             /\ an[1].answered = n + 1
    /\ (Len(hist) > 0 /\ AllPending(Len(hist) - 1))
          => /\ an[1].answered = Len(hist)
             /\ an[1].issued - an[1].answered \in {0, 1}

PollReturnsFirstDoneWitness ==
    /\ Len(hist) = MaxAttempts
    /\ AllPending(MaxAttempts - 1)
    /\ Kind(hist[MaxAttempts]) = "done"
    /\ an[1].pc = "shown"
    /\ rendered = hist[MaxAttempts].body

ErrorStatusIsTerminal ==
    \A k \in 1..Len(hist) :
        Kind(hist[k]) = "error"
        => /\ an[1].pc = "failed"
           /\ an[1].thrown = Thrown(hist[k])
           /\ an[1].issued = k

\* C4: a status request that fails in transit (network error or non-success
\* HTTP status) on attempt k < maxAttempts does not fail pollForResults: the
\* loop waits the delay and then sends attempt k+1, and the failed attempt
\* has used up one of the maxAttempts requests.
TransitFailureRetried ==
    /\ Len(hist) <= MaxAttempts
    /\ an[1].issued <= MaxAttempts
    /\ \A k \in 1..Len(hist) :
          (Kind(hist[k]) \in {"net", "http"} /\ k < MaxAttempts /\ k = Len(hist))
          => /\ an[1].thrown = NoMsg
             /\ \/ an[1].pc = "delay" /\ an[1].attempt = k /\ an[1].issued = k
                \/ an[1].pc = "poll" /\ an[1].attempt = k + 1 /\ an[1].issued = k + 1

TransitFailureRetriedWitness ==
    /\ Len(hist) = 1
    /\ Kind(hist[1]) \in {"net", "http"}
    /\ an[1].pc = "poll"
    /\ an[1].issued = 2

\* C5 (as claimed): whenever pollForResults uses up its whole attempt budget
\* without ever receiving `done` or `error`, the failure it reports is the
\* timeout error, also when the last attempt's request failed.
BudgetExhausted ==
    /\ an[1].pc = "failed"
    /\ Len(hist) = MaxAttempts
    /\ \A k \in 1..Len(hist) : Kind(hist[k]) \notin {"done", "error"}

InFlight(i) == an[i].issued - an[i].answered

\* status requests in flight for job id j
RECURSIVE InFlightOver(_, _)
InFlightOver(S, j) ==
    IF S = {} THEN 0
    ELSE LET i == CHOOSE x \in S : TRUE
         IN (IF an[i].jobId = j THEN InFlight(i) ELSE 0) + InFlightOver(S \ {i}, j)

JobIds == {an[i].jobId : i \in Analyses} \ {0}

\* C6: in every reachable state of a popup session at most one status
\* request for a given job id is in flight.
OnePollInFlightPerJob == \A j \in JobIds : InFlightOver(Analyses, j) <= 1

\* two jobs polled side by side, the second request of one of them in flight
OnePollInFlightPerJobWitness ==
    \E i, k \in Analyses :
        /\ i # k
        /\ an[i].pc = "poll" /\ an[i].attempt = 2 /\ InFlight(i) = 1
        /\ an[k].pc = "poll" /\ InFlight(k) = 1
        /\ an[i].jobId # an[k].jobId

\* C7: when POST /analyze returns a non-success status the submission fails
\* with an error carrying that status, no status request is ever sent for
\* that analysis and the view goes to the error state; only on a success
\* status is the job id taken from the response and polling started.
SubmitFailureState ==
    \A i \in Analyses :
        /\ (an[i].submitStatus > 0 /\ ~ResponseOk(an[i].submitStatus))
              => /\ an[i].pc = "failed"
                 /\ an[i].thrown = Msg("Failed to submit job: ", an[i].submitStatus)
                 /\ an[i].issued = 0
                 /\ an[i].jobId = 0
        /\ (an[i].issued > 0 \/ an[i].jobId # 0 \/ an[i].pc \in {"poll", "delay", "shown"})
              => /\ ResponseOk(an[i].submitStatus)
                 /\ an[i].jobId # 0

SubmitFailureStep ==
    \A i \in Analyses :
        (an[i].pc = "submit" /\ an'[i].pc # "submit")
        => IF an'[i].submitStatus > 0 /\ ~ResponseOk(an'[i].submitStatus)
           THEN /\ view' = "error"
                /\ errorMessage' = Msg("Failed to submit job: ", an'[i].submitStatus)
                /\ an'[i].issued = 0
           ELSE an'[i].submitStatus = -1 \/ (an'[i].pc = "poll" /\ an'[i].issued = 1)

SubmitFailureNoPolling == []SubmitFailureState /\ [][SubmitFailureStep]_vars

SubmitFailureNoPollingWitness ==
    \E i \in Analyses :
        /\ an[i].submitStatus = 500
        /\ an[i].pc = "failed"
        /\ an[i].issued = 0
        /\ view = "error"
        /\ errorMessage = Msg("Failed to submit job: ", 500)

\* C8 (as claimed): within one popup session at most one collection pass
\* and at most one poll loop are active at any time; a second start while a
\* pass or a poll loop is in flight starts neither a second scrape request
\* nor a second submission.
Active(i) == an[i].pc \in {"scrape", "submit", "poll", "delay"}

OneAnalysisAtATime == Cardinality({i \in Analyses : Active(i)}) <= 1

\* C9 (as claimed): after the popup session has ended no in-flight poll,
\* poll delay or timer acts on its completion: no further status request is
\* sent and the view is not updated.
NothingAfterClose ==
    [][~alive => /\ \A i \in Analyses : an'[i].issued = an[i].issued
                 /\ <<view, errorMessage, loadingText, rendered>>' =
                        <<view, errorMessage, loadingText, rendered>>]_vars

\* C10: for every scrapeReviews request the relay calls sendResponse exactly
\* once and forwards at most one message to the active tab, on every path:
\* no active tab, forward failure, page response received.
RelayRespondsOnce ==
    \A i \in Analyses :
        /\ relay[i].forwards <= 1
        /\ Len(relay[i].responses) <= 1
        /\ relay[i].pc = "done" <=> Len(relay[i].responses) = 1
        /\ relay[i].pc = "done"
              => /\ relay[i].path \in {"notab", "fwdfail", "page"}
                 /\ relay[i].forwards = IF relay[i].path = "notab" THEN 0 ELSE 1

RelayRespondsOnceWitness ==
    \E i, k \in Analyses :
        /\ relay[i].pc = "done" /\ relay[i].path = "fwdfail"
        /\ relay[k].pc = "done" /\ relay[k].path = "page"
        /\ an[k].pc # "scrape"

\* ------------------------------------------------------------- the relay
\* C11: when the tab query yields no active tab with an id, or forwarding
\* to the tab fails, the response delivered to the popup has an empty
\* reviews list and a non-empty error message.
RelayErrorReply ==
    \A i \in Analyses :
        relay[i].path \in {"notab", "fwdfail"}
        => /\ Len(relay[i].responses) = 1
           /\ relay[i].responses[1].defined
           /\ relay[i].responses[1].reviews = <<>>
           /\ relay[i].responses[1].error # Absent
           /\ an[i].pc # "scrape"
                 => /\ an[i].received = relay[i].responses[1]
                    /\ an[i].reviews = <<>>

\* one request answered for want of a tab, another for a failed forward,
\* both answers delivered to the popup
RelayErrorReplyWitness ==
    \E i, k \in Analyses :
        /\ relay[i].path = "notab" /\ an[i].received = NoTabReply
        /\ relay[k].path = "fwdfail" /\ an[k].received = ForwardFailedReply

\* C12: when the page context answers the forwarded request with an object,
\* the response the popup receives is exactly that object: same reviews in
\* the same order, same error field, nothing added, dropped or replaced.
RelayVerbatim ==
    \A i \in Analyses :
        (relay[i].path = "page" /\ relay[i].page.defined)
        => /\ relay[i].responses = <<relay[i].page>>
           /\ an[i].pc # "scrape" => an[i].received = relay[i].page

\* a page answer with reviews and a page answer with an error, both delivered
RelayVerbatimWitness ==
    \E i, k \in Analyses :
        /\ relay[i].path = "page" /\ relay[i].page.error # Absent
        /\ an[i].received = relay[i].page
        /\ relay[k].path = "page" /\ Len(relay[k].page.reviews) = 2
        /\ an[k].received = relay[k].page

\* ------------------------------------------------- the scrape outcome shown
\* analysis i ended in the sendMessage callback, before any submission
FailedAtScrape(i) == an[i].pc = "failed" /\ an[i].posts = 0

\* C16 (as claimed): when the collection response carries an error (no
\* active tab, no receiving context, DOM access failure) the error view
\* shows the could-not-scrape / reload message; the no-reviews-found message
\* is shown only when collection succeeded with zero reviews.
ScrapeFailureShownAsSuch ==
    \A i \in Analyses :
        FailedAtScrape(i)
        => /\ an[i].received.error # Absent => an[i].reported = CouldNotScrapeMsg
           /\ an[i].reported = NoReviewsMsg
                 => /\ an[i].received.defined
                    /\ an[i].received.error = Absent

\* ------------------------------------------------------------ the Extractor
\* no string occurs twice in the sequence
NoDuplicates(seq) == \A j, k \in 1..Len(seq) : seq[j] = seq[k] => j = k

\* C17 (as claimed): for every document on a recognized site (hostname
\* containing amazon or flipkart) the sequence scrapeReviewsFromPage returns
\* contains no string twice and no string shorter than 20 code units after
\* whitespace collapsing.
ExtractorOutputClean ==
    \A k \in 1..Len(calls) :
        host # {}
        => /\ NoDuplicates(calls[k].out)
           /\ \A j \in 1..Len(calls[k].out) :
                 TextLength(Trim(CollapseWhitespace(calls[k].out[j]))) >= MinReviewLength

\* C18: scrapeReviewsFromPage is idempotent on a static document: two calls
\* that read the same document return the same reviews in the same order,
\* and a call leaves the document unchanged.
ExtractorSameOnSameDocument ==
    \A j, k \in 1..Len(calls) :
        calls[j].doc = calls[k].doc => calls[j].out = calls[k].out

ExtractorReadsOnly == Len(calls') > Len(calls) => <<host, doc, ctl>>' = <<host, doc, ctl>>

ExtractorIdempotent == []ExtractorSameOnSameDocument /\ [][ExtractorReadsOnly]_vars

\* two calls on one document of two elements, both kept
ExtractorIdempotentWitness ==
    /\ Len(calls) = 2
    /\ calls[1].doc = calls[2].doc
    /\ Len(calls[1].doc) = 2
    /\ Len(calls[2].out) = 2

\* ------------------------------------------------------------ the Collector
\* the pass has ended: it answered, or it can take no further step
PassEnded == pass.pc \in {"answered", "hung"}

\* C13 (as claimed): when an unexpected internal failure occurs during a
\* collection pass (the Extractor or DOM access throws, at the initial
\* extraction or in a later step) the pass still answers the request, with
\* an empty review sequence and an error message; when zero reviews are
\* found without any failure it answers with an empty sequence and no error.
PassFailureAnswered ==
    /\ pass.pc # "hung"
    /\ pass.pc = "answered"
          => /\ Len(pass.replies) = 1
             /\ pass.threw
                   => /\ pass.replies[1].reviews = <<>>
                      /\ pass.replies[1].error # Absent
             /\ (~pass.threw /\ pass.allReviews = <<>>)
                   => pass.replies[1] = Resp(<<>>, Absent)

\* C14: a mutation observer that a collection pass has connected is
\* disconnected by the time the pass ends, on every exit path (completion,
\* timeout, error, an Extractor failure inside the observer callback
\* included); no observer stays connected after its pass returned or failed.
ObserverDisconnected == PassEnded => pass.observer # "connected"

\* a pass that observed, saw the Extractor fail in the observer callback,
\* and ended on its timeout
ObserverDisconnectedWitness ==
    /\ pass.pc = "answered"
    /\ pass.observer = "disconnected"
    /\ pass.threw
    /\ changes > 0

\* ------------------------------------------------------------- the Expander
\* the pass ran the expander to its end
Expanded == pass.pc = "answered" /\ Len(pass.initial) > 0 /\ build # "basic"

\* the set the expander handed back (the safe script keeps it in `reviews`)
Returned == IF build = "enhanced" THEN pass.totalReviews ELSE pass.allReviews

Contains(seq, x) == \E k \in 1..Len(seq) : seq[k] = x

\* C19 (as claimed): every review the Extractor returned before expansion
\* began is still in the set the Expander returns, whatever page changes
\* the activated controls caused: the returned set is a superset of the
\* pre-expansion set.
ExpanderKeepsInitialReviews ==
    Expanded => \A k \in 1..Len(pass.initial) : Contains(Returned, pass.initial[k])

\* C19 (amended): the set the Expander returns is the pre-expansion set
\* itself or a later extraction with strictly more reviews; it is never
\* smaller, but reviews of the pre-expansion set need not be in it.
ExpanderNeverShrinks ==
    Expanded => \/ Returned = pass.initial
                \/ Len(Returned) > Len(pass.initial)

\* a larger set returned that lacks a review of the pre-expansion set
ExpanderNeverShrinksWitness ==
    /\ Expanded
    /\ build = "enhanced"
    /\ Len(Returned) > Len(pass.initial)
    /\ ~Contains(Returned, pass.initial[1])
    /\ pass.replies = <<Resp(Returned, Absent)>>

\* C20 (as claimed): within a single collection pass every control element,
\* read-more and load-more alike, is clicked at most once, over all attempts
\* of the Expander in that pass.
ControlsClickedAtMostOnce ==
    /\ \A k \in 1..Len(ctl.readMore) : ctl.readMore[k].clicks <= 1
    /\ \A k \in 1..Len(ctl.loadMore) : ctl.loadMore[k].clicks <= 1

\* ------------------------------------------------------- from click to view
\* C15 (as claimed): every analysis started from the popup eventually
\* leaves the loading state and ends in one of the terminal views, results
\* or error, provided every request eventually gets a response or a
\* failure; a failure raised in the Collector, the Relay or the Orchestrator
\* puts the view in the error state and none leaves it in loading forever.
EveryAnalysisEnds ==
    (an[1].pc = "scrape")
        ~> (an[1].pc \in {"shown", "failed"} /\ view \in {"results", "error"})

\* ------------------------------------------------ a page without controls
\* the review strings of document d: the normalised texts of the elements a
\* review selector of the site matches, long enough and not metadata
QualifyingTexts(b, h, d) ==
    { t \in { Trim(CollapseWhitespace(Trim(d[k].text))) :
                k \in { j \in 1..Len(d) : d[j].sels \cap ReviewSelectors(b, h) # {} } } :
        TextLength(t) >= MinReviewLength /\ ~MatchesMetadata(b, t) }

ElementsOf(seq) == { seq[k] : k \in 1..Len(seq) }

\* C21: on a recognized site, a document that holds n >= 1 unique qualifying
\* review strings and no read-more or load-more control gives, in one
\* collection pass of part_002 (and of part_003), exactly those n reviews
\* and no error.
PlainPageCollected ==
    ( /\ build \in {"enhanced", "safe"}
      /\ PassEnded
      /\ ctl = NoControls
      /\ changes = 0      \* doc is the document the request found
      /\ ~pass.threw
      /\ QualifyingTexts(build, host, doc) # {} )
        => /\ pass.pc = "answered"
           /\ Len(pass.replies) = 1
           /\ pass.replies[1].error = Absent
           /\ ElementsOf(pass.replies[1].reviews) = QualifyingTexts(build, host, doc)
           /\ Len(pass.replies[1].reviews) = Cardinality(QualifyingTexts(build, host, doc))

PlainPageCollectedWitness ==
    /\ build = "enhanced"
    /\ pass.pc = "answered"
    /\ ctl = NoControls
    /\ Cardinality(QualifyingTexts(build, host, doc)) = 3
    /\ Len(pass.replies[1].reviews) = 3
    /\ pass.replies[1].error = Absent

\* ------------------------------------------------------ the derived scores
\* C22 (as claimed): rendering the same analysis result twice yields the
\* same derived outputs (confidence score and label, authenticity score,
\* trust-indicator classes, love and hate points, category view); no derived
\* value depends on a random draw or on earlier renders.
SameResultSameScores ==
    \A i \in 1..Len(renders) : \A j \in 1..Len(renders) : renders[i] = renders[j]

\* C23: for every analysis result (fractions in [0,1], nReviews >= 0, category
\* ratings in 1..5) the purchase confidence score lies in [0,100], and its
\* label is High Confidence when the score is >= 80, Good Confidence when
\* it is >= 60 (and below 80), Moderate Risk when it is >= 40 (and below
\* 60), High Risk otherwise.
ConfidenceInRangeAndLabelled ==
    \A k \in 1..Len(renders) :
        LET score == renders[k].confidence.score
            label == renders[k].confidence.label
        IN  /\ 0 <= score /\ score <= 100 * ScoreScale
            /\ label = "High Confidence" <=> score >= 80 * ScoreScale
            /\ label = "Good Confidence"
                  <=> score >= 60 * ScoreScale /\ score < 80 * ScoreScale
            /\ label = "Moderate Risk"
                  <=> score >= 40 * ScoreScale /\ score < 60 * ScoreScale
            /\ label = "High Risk" <=> score < 40 * ScoreScale

\* a result whose score is exactly 80 has been rendered
ConfidenceInRangeAndLabelledWitness ==
    /\ Len(renders) > 0
    /\ ConfidenceSum(payload) = 80 * ScoreScale
    /\ renders[1].confidence.label = "High Confidence"

\* ------------------------------------------------------------- the views
\* C24: in every reachable state of the popup exactly one of the views
\* idle, loading, results, error is active; no state has two active views
\* or none.
ExactlyOneActiveView ==
    /\ active \subseteq ViewElements
    /\ Cardinality(active) = 1

\* an analysis has gone from idle through loading to the results view
ExactlyOneActiveViewWitness ==
    /\ started > 0
    /\ active = {"results"}

\* ------------------------------------------------------ no automatic retry
\* the requests of each analysis, counted
RequestsWithinBudget ==
    \A i \in Analyses :
        /\ an[i].scrapes <= 1
        /\ an[i].posts <= 1
        /\ an[i].issued <= MaxAttempts
        /\ i > started => an[i].scrapes = 0 /\ an[i].posts = 0 /\ an[i].issued = 0

\* a failed analysis does nothing more; a scrape request is sent only by a
\* click on Analyze; a step back to the idle view (the retry button) starts
\* nothing and sends nothing
NothingRetried ==
    /\ \A i \in Analyses : an[i].pc = "failed" => an'[i] = an[i] /\ relay'[i] = relay[i]
    /\ started' = started => \A i \in Analyses : an'[i].scrapes = an[i].scrapes
    /\ (view # "idle" /\ view' = "idle") => an' = an /\ relay' = relay /\ started' = started

\* C25: one user-initiated analysis issues at most one scrape request and at
\* most one POST /analyze; after a failure nothing is retried automatically
\* (the retry button only returns the view to idle), and the only repeated
\* request is the status poll, at most maxAttempts times.
NoAutomaticRetry == []RequestsWithinBudget /\ [][NothingRetried]_vars

\* an analysis used up its poll budget and failed, and the retry button was
\* clicked afterwards
NoAutomaticRetryWitness ==
    /\ an[1].pc = "failed"
    /\ an[1].scrapes = 1
    /\ an[1].posts = 1
    /\ an[1].issued = MaxAttempts
    /\ view = "idle"

\* C26 (part): once every tabs query has answered, there is one write per
\* activation
OneWritePerActivation == pendingQueries = 0 => Len(writes) = clicks

\* C26 (part): no two writes of the session share a key
FreshKeys == \A i, j \in 1..Len(writes) : i # j => writes[i].key # writes[j].key

\* C26: each activation of `View Detailed Analysis` writes its blob exactly
\* once, under a key no earlier write of the session used
PersistedHandoff ==
    /\ OneWritePerActivation
    /\ FreshKeys
    /\ \A i \in 1..Len(writes) :
           DOMAIN writes[i].value = {"result", "source", "page_info", "job_id"}

\* the first of the longest members of a sequence of review lists, the empty
\* list when there is none
RECURSIVE Largest(_)
Largest(results) ==
    IF results = <<>> THEN <<>>
    ELSE LET rest == Largest(Tail(results))
         IN  IF Len(rest) > Len(Head(results)) THEN rest ELSE Head(results)

\* C27 (part): the answer of a pass that fell back to the observer is the
\* largest result its callbacks extracted (the first extraction gave none)
FallbackAnswersLargest ==
    (pass.observer # "none" /\ pass.pc = "answered") =>
        /\ pass.initial = <<>>
        /\ pass.replies = <<Resp(Largest(pass.extractions), Absent)>>

\* C27 (part): while the observer is connected only the timeout answers, and
\* the kept result does not get smaller
FallbackWaitsForTimeout ==
    pass.observer = "connected" =>
        /\ pass'.replies # pass.replies => CollectTimeout
        /\ Len(pass'.allReviews) >= Len(pass.allReviews)

\* C27: after an empty first extraction the pass answers at the timeout and
\* not before, with the largest result seen in a mutation callback, and the
\* kept result never shrinks while observing
ObserverFallback == []FallbackAnswersLargest /\ [][FallbackWaitsForTimeout]_vars

\* reviews appeared and went again before the timeout; the larger set was sent
ObserverFallbackWitness ==
    /\ pass.observer = "disconnected"
    /\ pass.pc = "answered"
    /\ Len(pass.extractions) >= 3
    /\ Len(pass.extractions[Len(pass.extractions)]) < Len(pass.replies[1].reviews)

\* C28 (as claimed): when the initial extraction is non-empty and the
\* Expander then throws, the pass still completes and answers with the
\* pre-expansion review set and no error; the request is never left
\* unanswered.
ExpanderFailureSwallowed ==
    (build # "basic" /\ Len(pass.initial) > 0 /\ pass.threw)
        => /\ pass.pc = "answered"
           /\ pass.replies = <<Resp(pass.initial, Absent)>>

\* C29 (part): the set the Expander hands back is the largest set an
\* extraction of the pass produced, and not smaller than the pre-expansion set
ExpanderHandsBackLargest ==
    Expanded => /\ Returned = Largest(pass.extractions)
                /\ Len(Returned) >= Len(pass.initial)

\* C29 (part): the Expander's best set so far is never replaced by a smaller one
BestNeverReplacedBySmaller ==
    pass.pc \in {"readWait", "loadWait"} => Len(pass'.totalReviews) >= Len(pass.totalReviews)

\* C29: the Expander returns the largest review set any extraction of the
\* pass produced, never fewer reviews than were extracted before expansion
\* began; an extraction with fewer reviews than the best so far does not
\* replace it.
ExpanderReturnsLargest == []ExpanderHandsBackLargest /\ [][BestNeverReplacedBySmaller]_vars

\* after the load-more click the page showed fewer reviews; the earlier,
\* larger set was returned
ExpanderReturnsLargestWitness ==
    /\ Expanded
    /\ build = "enhanced"
    /\ Len(pass.extractions) = 3
    /\ Len(pass.extractions[3]) < Len(pass.extractions[2])
    /\ Returned = pass.extractions[1]
    /\ pass.replies = <<Resp(Returned, Absent)>>

\* a read-more wait of the Expander
ReadWaits == {"readWait", "eagerReadWait"}

\* C30 (part): on a page without load-more control, what the Expander
\* returns after a read-more activation is what the page shows after it
RevealedTextReturned ==
    ( /\ build \in {"enhanced", "eager"}
      /\ pass.pc = "answered"
      /\ pass.observer = "none"
      /\ ~pass.threw
      /\ ctl.loadMore = <<>>
      /\ \E k \in 1..Len(ctl.readMore) : ctl.readMore[k].clicks > 0 )
        => pass.replies = <<Resp(ScrapeReviewsFromPage(build, host, doc, {}).reviews, Absent)>>

\* C30 (part): the step that follows a read-more wait re-runs the Extractor,
\* and clicks no load-more control when the new extraction is not larger than
\* the set of the attempt before
ReExtractsAfterReadMore ==
    (pass.pc \in ReadWaits /\ pass'.pc # pass.pc /\ ~pass'.threw)
        => /\ Len(pass'.extractions) > Len(pass.extractions)
           /\ Len(pass'.extractions[Len(pass.extractions) + 1]) <= Len(pass.totalReviews)
                 => pass'.pc \notin {"loadWait", "eagerLoadWait"}

\* C30 (as claimed): in each attempt the Extractor is re-run after the
\* read-more activations and before a load-more control is looked for, so
\* revealed text is in the returned set also on a page without load-more
\* control; a re-extraction that is not larger than the previous attempt's
\* set stops the Expander without failure.
ReadMoreThenExtract == []RevealedTextReturned /\ [][ReExtractsAfterReadMore]_vars

\* ------------------------------------------------- the Expander's loop
\* maxAttempts of the build's expander
MaxAttemptsOf(b) == IF b = "eager" THEN EagerMaxAttempts ELSE ExpandMaxAttempts

RECURSIVE SumClicks(_)
SumClicks(links) == IF links = <<>> THEN 0 ELSE Head(links).clicks + SumClicks(Tail(links))

\* the expander is between two of its steps
ExpanderRunning == pass.pc \in {"readWait", "loadWait", "eagerReadWait", "eagerLoadWait"}

\* C31 (part): no more than maxAttempts attempts, maxAttempts no more than 3,
\* and no more load-more clicks than attempts
ExpanderBounded ==
    /\ pass.attempts <= MaxAttemptsOf(build)
    /\ MaxAttemptsOf(build) <= 3
    /\ SumClicks(ctl.loadMore) <= pass.attempts

\* C31: the Expander makes at most maxAttempts (at most 3) attempts, clicks
\* at most one load-more control per attempt, and resolves on every page,
\* also when its load-more control stays visible or never brings new reviews.
ExpanderTerminates == []ExpanderBounded /\ (ExpanderRunning ~> ~ExpanderRunning)

\* part_001 used all three attempts on a page whose load-more link stayed
\* visible and brought nothing new, and the pass was answered
ExpanderTerminatesWitness ==
    /\ build = "eager"
    /\ pass.pc = "answered"
    /\ pass.attempts = EagerMaxAttempts
    /\ SumClicks(ctl.loadMore) = EagerMaxAttempts
    /\ changes = 0

\* ---------------------------------------------------- an unrecognized site
\* C32: on a page whose hostname holds neither amazon nor flipkart the
\* Extractor has no selector and returns no review whatever the document
\* holds, and a pass in which nothing throws is answered with empty reviews
\* and no error.
UnrecognizedSiteEmpty ==
    (host = {} /\ ~pass.threw) =>
        /\ ReviewSelectors(build, host) = {}
        /\ \A k \in 1..Len(pass.extractions) : pass.extractions[k] = <<>>
        /\ pass.pc # "hung"
        /\ pass.pc = "answered" => pass.replies = <<Resp(<<>>, Absent)>>

\* part_002 on an unrecognized site: review elements arrived while it
\* observed, every extraction was empty, the timeout answered with no reviews
UnrecognizedSiteEmptyWitness ==
    /\ host = {}
    /\ build = "enhanced"
    /\ Len(doc) = 3
    /\ Len(pass.extractions) >= 2
    /\ pass.replies = <<Resp(<<>>, Absent)>>

\* ------------------------------------------------------ nothing to analyse
\* the sendMessage callback of analysis i runs in this step with a response
\* that holds no review
ZeroReviewsArrive(i) ==
    /\ an[i].pc = "scrape"
    /\ an'[i].pc # "scrape"
    /\ relay'[i] = relay[i]
    /\ ~relay[i].responses[1].defined \/ relay[i].responses[1].reviews = <<>>

\* C33 (part): a response without reviews puts the popup in the error view
\* with the no-reviews-found message, and the analysis posts nothing
ZeroReviewsReported ==
    \A i \in Analyses :
        ZeroReviewsArrive(i) => /\ view' = "error"
                                /\ errorMessage' = NoReviewsMsg
                                /\ an'[i].pc = "failed"
                                /\ an'[i].posts = 0

\* C33 (part): a POST /analyze carries at least one review
SubmittedWithReviews == \A i \in Analyses : an[i].posts > 0 => Len(an[i].reviews) > 0

\* C33: when the collection response holds zero reviews the popup shows the
\* error view with the no-reviews-found message and never issues POST
\* /analyze; a submission is made only with a non-empty review list.
NoReviewsNoSubmission == []SubmittedWithReviews /\ [][ZeroReviewsReported]_vars

\* one analysis ended on an empty response without a POST, another one
\* submitted its reviews
NoReviewsNoSubmissionWitness ==
    /\ an[1].pc = "failed"
    /\ an[1].received.defined
    /\ an[1].received.reviews = <<>>
    /\ an[1].reported = NoReviewsMsg
    /\ an[1].posts = 0
    /\ an[2].posts = 1
    /\ view = "error"

\* ------------------------------------------------- the order of the flow
\* C34 (part): what each analysis has sent so far came after what it had to
\* wait for
FlowInOrder ==
    /\ \A i \in Analyses :
          /\ an[i].posts > 0
                => /\ an[i].scrapes = 1
                   /\ Len(relay[i].responses) = 1
                   /\ an[i].received = relay[i].responses[1]
          /\ an[i].issued > 0
                => /\ an[i].posts = 1
                   /\ ResponseOk(an[i].submitStatus)
                   /\ an[i].jobId # 0
          /\ an[i].pc = "shown"
                => /\ an[i].answered > 0
                   /\ an[i].result.status = "done"
                   /\ an[i].result.job = an[i].jobId
    /\ view = "results"
          => \E i \in Analyses : an[i].pc = "shown" /\ rendered = an[i].result

\* C34 (part): the click shows loading, and the analysis it starts has sent
\* its scrape request and nothing else
LoadingFirst ==
    started' # started
        => /\ view' = "loading"
           /\ an[started'].pc = "none"
           /\ an'[started'].scrapes = 1
           /\ an'[started'].posts = 0
           /\ an'[started'].issued = 0

\* C34: clicking Analyze shows loading before any request is sent; POST
\* /analyze is sent only after the scrape response has arrived; the first
\* status request only after the submission returned a job id; the results
\* view only after a status response for that job id.
AnalysisFlowOrder == []FlowInOrder /\ [][LoadingFirst]_vars

\* an analysis went through every stage and its result is on view
AnalysisFlowOrderWitness ==
    /\ view = "results"
    /\ an[1].pc = "shown"
    /\ an[1].posts = 1
    /\ an[1].issued = 2
    /\ an[1].answered = 2
    /\ rendered = an[1].result

\* ------------------------------------------------------- pending answers
\* C35 (as claimed): a `pending` answer never ends polling with success:
\* pollForResults returns a payload, and the view enters results, only for an
\* answer whose status is `done`; on `pending` it waits the delay and asks
\* again.
PendingNeverSucceeds ==
    /\ an[1].pc = "shown"
          => /\ Kind(hist[Len(hist)]) = "done"
             /\ an[1].result = hist[Len(hist)].body
    /\ view = "results" => rendered.status = "done"
    /\ (Len(hist) > 0 /\ Len(hist) < MaxAttempts /\ Kind(hist[Len(hist)]) = "pending")
          => \/ an[1].pc = "delay" /\ an[1].issued = Len(hist)
             \/ an[1].pc = "poll" /\ an[1].issued = Len(hist) + 1

\* --------------------------------------------------------- poll progress
\* status requests sent so far for the job: the answered ones and the one in
\* flight
RequestsSent == Len(hist) + (IF an[1].pc = "poll" THEN 1 ELSE 0)

ShownIsRequestsSent ==
    /\ loadingText = RequestsSent
    /\ loadingText = an[1].issued
    /\ loadingText \in 0..MaxAttempts
    /\ an[1].pc \in {"poll", "delay"} => loadingText = an[1].attempt /\ loadingText >= 1

ShownGoesUpByOne ==
    [][/\ loadingText' # loadingText <=> RequestsSent' # RequestsSent
       /\ loadingText' # loadingText => loadingText' = loadingText + 1]_vars

\* C36: the attempt number shown equals the number of status requests issued
\* so far for the job, starts at 1, goes up by exactly one per request and
\* never exceeds maxAttempts, whatever mix of pending answers and failed
\* requests arrives.
PollProgress == []ShownIsRequestsSent /\ ShownGoesUpByOne

\* the last attempt is shown in a run with a pending answer and a failed request
PollProgressWitness ==
    /\ loadingText = MaxAttempts
    /\ an[1].issued = MaxAttempts
    /\ \E j, k \in 1..Len(hist) : Kind(hist[j]) = "pending" /\ Kind(hist[k]) \in {"net", "http"}

\* --------------------------------------------------------- category view
\* the class the rating thresholds give (ratings in tenths of a star)
RatingClass(rating) ==
    IF rating >= 35 THEN "positive" ELSE IF rating >= 25 THEN "neutral" ELSE "negative"

\* C37 (as claimed): when the result's category breakdown is non-empty, each
\* entry is shown with score = rating and a sentiment class decided by the
\* rating alone: positive when rating >= 3.5, neutral when rating >= 2.5,
\* negative otherwise.
CategoryClassByRating ==
    \A k \in 1..Len(renders) :
        Len(payload.category_breakdown) > 0 =>
            /\ Len(renders[k].categories) = Len(payload.category_breakdown)
            /\ \A c \in 1..Len(payload.category_breakdown) :
                 LET cat == payload.category_breakdown[c]
                     item == renders[k].categories[c]
                 IN  /\ item.name = cat.name
                     /\ item.score = cat.rating * 100
                     /\ item.sentiment = RatingClass(cat.rating)

\* ----------------------------------------------------- authenticity score
\* C38 (as claimed): for every analysis result the authenticity score lies in
\* [30,95]; it starts at 75, loses 20 when nReviews < 5, gains 10 when
\* nReviews > 100, loses 15 when a sentiment fraction exceeds 0.9 and
\* nReviews > 20, and its only other adjustments come from the result's
\* authenticity metrics when those are present (none when they are absent).
AuthenticityFromMetricsOnly ==
    \A k \in 1..Len(renders) :
        /\ renders[k].authenticity \in 30..95
        /\ renders[k].authenticity =
              MathMax(30, MathMin(95, VolumeAndSkew(payload) + BackupFactors(payload)))

\* ---------------------------------------------------- handoff consistency
\* C39 (as claimed): in every reachable state, and for every interleaving of
\* analyses started in one popup session, the job id written by
\* openDetailedAnalysis is the id of the job whose payload is the analysis
\* result written in the same blob: currentJobId and currentAnalysisData
\* always belong to the same job.
HandoffSameJob ==
    /\ currentAnalysisData # 0 => currentJobId = currentAnalysisData
    /\ \A i \in 1..Len(writes) : writes[i].value.job_id = writes[i].value.result
    /\ \A k \in DOMAIN localStorage : localStorage[k].job_id = localStorage[k].result

\* ----------------------------------------------------- activation markers
\* a control that carries its marker is not clicked by the step
MarkedStaysUnclicked(before, after) ==
    \A k \in 1..Len(before) :
        before[k].marked => after[k].marked /\ after[k].clicks = before[k].clicks

\* the controls a build marks when it clicks them: the load-more links in
\* part_002 (`clicked`), the read-more buttons in part_003 (`revuze-expanded`)
MarkingControls == IF build = "safe" THEN ctl.readMore ELSE ctl.loadMore

MarkedOnClick ==
    \A k \in 1..Len(MarkingControls) :
        /\ MarkingControls[k].clicks <= 1
        /\ MarkingControls[k].clicks = 1 => MarkingControls[k].marked

\* C40: a load-more control marked `clicked`, or a read-more control marked
\* `revuze-expanded`, in one collection pass is not clicked again by any
\* later pass on the same document: such a control is clicked at most once
\* over all passes.
MarkersOutliveThePass ==
    /\ []MarkedOnClick
    /\ [][/\ MarkedStaysUnclicked(ctl.loadMore, ctl'.loadMore)
          /\ MarkedStaysUnclicked(ctl.readMore, ctl'.readMore)]_vars

\* a second pass has run its expander over a control the first pass marked
MarkersOutliveThePassWitness ==
    /\ pass.request = 2
    /\ pass.pc = "answered"
    /\ Len(pass.extractions) > 0
    /\ \E k \in 1..Len(MarkingControls) :
        /\ MarkingControls[k].marked
        /\ MarkingControls[k].clicks = 1
        /\ build = "enhanced" => MarkingControls[k].visible
        /\ build = "safe" => MarkingControls[k].more

====
